---- MODULE Spec2Model ----
(***************************************************************************)
(* Market-data pipeline of crypto-tracker: exchange ingestion, rolling      *)
(* candle windows, batched persistence and subscriber connections.          *)
(*                                                                          *)
(* The repository holds several parallel implementations of the pipeline.   *)
(* The variable `program` says which one a behaviour is a run of:           *)
(*   "start_binance_ws"  core/binance_ws_client.py  BinanceWebSocketClient  *)
(*   "start_websocket"   management/commands/start_websocket.py  Command    *)
(*   "dashboard"         core/crypto_trading_dashboard.py KlineDataProcessor*)
(*   "upsert_crypto_data" a direct call of core/utils.py upsert_crypto_data  *)
(*   "consumer"          core/consumers.py  one CryptoConsumer connection    *)
(*   "calculators"       the metric functions, applied to a window of closes *)
(*                                                                          *)
(* Symbols are numbered: 0 is a pair that is not quoted in USDT (ETHBTC),   *)
(* 1, 2, ... are USDT pairs (BTCUSDT, ETHUSDT, ...).                         *)
(* Durations are in milliseconds.                                           *)
(***************************************************************************)
EXTENDS Integers, Sequences, FiniteSets, TLC

\* ------------------------------------------------------------------ bounds
\* Kline events delivered in one behaviour for USDT pair 1, and for pair 0.
MaxKlines == 102
MaxAltKlines == 3
\* Updates of a still-open candle (x = FALSE) are sent for the first
\* MaxOpenBars candles of a symbol, at most one per candle.
MaxOpenBars == 2
\* Connection attempts of the ingestion coroutine in one behaviour.
MaxConnects == 6
\* Ticker frames the exchange delivers in one behaviour.
MaxFrames == 3
\* USDT pairs the exchange lists.
MaxTickerSymbols == 76
\* Flush timer ticks in one behaviour.
MaxTicks == 2
\* Messages a subscriber sends on one connection.
MaxRequests == 2
\* Frames the background tasks of a subscriber connection send in one behaviour.
MaxTaskFrames == 3
\* Deltas the subscriber's group receives while the connection is open.
MaxDeltas == 1
\* Changes of the account's subscription plan in one behaviour.
MaxPlanChanges == 2
\* Close prices in the window the calculators are applied to.
MaxCloses == 17
\* Candles in the window the timeframe metrics are computed from.
MaxWindow == 6
\* Candles that arrive for the symbol whose computations are followed.
MaxArrivals == 3
\* Metrics computations of that symbol in one behaviour.
MaxReaders == 3
\* Rate limiter: clock ticks per second, the last tick at which time passes on its
\* own, calls of check_rate_limit, concurrent callers, and the largest
\* max_requests and window (in seconds) a limit is configured with.
TicksPerSecond == 4
MaxClock == 10
MaxCalls == 3
MaxCallers == 2
MaxRateRequests == 2
MaxRateWindow == 2

\* ------------------------------------------------------- program constants
\* binance_ws_client.py: "Keep only last 65 klines per symbol"
KlineBufferCap == 65
\* start_websocket.py: kline_history[symbol][-250:]
KlineHistoryCap == 250
\* start_websocket.py: klines?...&rate_limit=250
HistoryLimit == 250
\* crypto_trading_dashboard.py: "keep last 100 entries"
DequeCap == 100
\* binance_ws_client.py: self.reconnect_delay = 5 (seconds)
BaseReconnectDelay == 5000
\* binance_ws_client.py: min(self.reconnect_delay * 2, 60)
MaxReconnectDelay == 60000
\* start_websocket.py receive_websocket_data: await asyncio.sleep(5)
CommandReconnectSleep == 5000

\* start_websocket.py save_and_broadcast_data: batch_size = 75
BatchSize == 75
\* utils.py bulk_upsert_crypto_data(_raw_sql): max_retries: int = 3
MaxRetries == 3
\* utils.py: wait_time = (2 ** attempt) * 0.1 seconds, the factor in milliseconds
BackoffUnit == 100
\* consumers.py _heartbeat: await asyncio.sleep(3)
HeartbeatInterval == 3000
\* calculate_rsi(prices, period=14)
RsiPeriod == 14
\* return 50.0, in hundredths
RsiNeutral == 5000
\* start_websocket.py calculate_rsi: return 70.0, in hundredths
RsiHigh == 7000
\* return 100.0, in hundredths
RsiFull == 10000
\* return None, or a key that is not set
RsiNone == -1
\* start_websocket.py: all_close_prices[-28:]
CommandRsiWindow == 28
\* binance_ws_client.py: closes[-15:]
WsRsiWindow == 15
\* consumers.py receive: int(message.get('page_size') or 100)
DefaultPageSize == 100
\* consumers.py receive: min(page_size, 1000) for one quote currency
SnapshotLimit == 1000
\* consumers.py receive: min(page_size, 2000) for quote currency 'ALL'
SnapshotLimitAll == 2000
\* binance_ws_client.py: volumes are rounded to two decimals, round(tf_volume, 2);
\* one hundredth in thousandths.
RoundingUnit == 10

Programs == {"start_binance_ws", "start_websocket", "dashboard", "upsert_crypto_data",
             "consumer", "calculators", "timeframe_metrics", "rate_limiter"}

\* The symbols whose candles the model delivers.
Symbols == {0, 1}

\* symbol.endswith('USDT')
EndsWithUSDT(s) == s >= 1

AllUSDT == 1..MaxTickerSymbols

Min(a, b) == IF a < b THEN a ELSE b

\* Python's seq[-n:] : the last n elements (all of them when there are fewer).
LastN(seq, n) == IF Len(seq) <= n THEN seq ELSE SubSeq(seq, Len(seq) - n + 1, Len(seq))

\* ------------------------------------------------- Python dict, in insertion order
\* A dict is a sequence of <<key, value>> pairs without repeated keys.
DictKeys(d) == {d[i][1] : i \in 1..Len(d)}

\* for k, v in items: d[k] = v     (items lists each key once)
\* A key already in d keeps its place and takes the new value; a new key is appended.
\* d.clear(); the mutant keeps the entries.
DictKeep(d) == d
DictClear(d) == <<>>

ListExtend(d, items) == d \o items
DictSetDefault(d, items) ==
    LET dk == {d[i][1] : i \in 1..Len(d)}
        IsNew(it) == it[1] \notin dk
    IN  d \o SelectSeq(items, IsNew)
DictUpdate(d, items) ==
    LET keys == {items[i][1] : i \in 1..Len(items)}
        val(k) == items[CHOOSE i \in 1..Len(items) : items[i][1] = k][2]
        dk == DictKeys(d)
        IsNew(it) == it[1] \notin dk
    IN  [i \in 1..Len(d) |-> IF d[i][1] \in keys THEN <<d[i][1], val(d[i][1])>> ELSE d[i]]
        \o SelectSeq(items, IsNew)

VARIABLES
    program,            \* which implementation is running
    \* ---- rolling windows
    kline_data_buffer,  \* BinanceWebSocketClient.kline_data_buffer : symbol -> list
    kline_history,      \* Command.kline_history, restricted to Symbols
    known_symbols,      \* Command.known_symbols
    init_tasks,         \* symbols with a pending initialize_new_symbol task
    kline_data,         \* KlineDataProcessor.kline_data[symbol][timeframe] deque
    price_history,      \* KlineDataProcessor.price_history[symbol][timeframe] deque
    bar,                \* exchange side: open time of each symbol's current candle
    klines_received,    \* kline events delivered so far, per symbol
    open_sent,          \* symbols whose current candle already had an open update
    \* ---- exchange connection
    ing_pc,             \* where the ingestion coroutine is
    is_connected,       \* BinanceWebSocketClient.is_connected
    reconnect_delay,    \* BinanceWebSocketClient.reconnect_delay
    db_update_loops,    \* running _db_update_loop tasks
    disconnect_called,  \* BinanceWebSocketClient.disconnect() was called
    sleep_for,          \* duration of the reconnect wait in progress, or of the last one
    prev_wait,          \* duration of the wait before that one (0: none)
    wait_after_fail,    \* the wait in progress follows a failed connection attempt
    sustained,          \* the open connection has been up for a sustained period
    lost_sustained,     \* the wait in progress follows the loss of such a connection
    connects,           \* connection attempts made
    frames_sent,        \* frames delivered by the exchange
    last_event,         \* the last event the ingestion coroutine handled
    disconnect_task,    \* the task the signal handler creates for client.disconnect()
    ws_state,           \* the exchange socket: "none", "open", "closed" (close completed)
    stats,              \* BinanceWebSocketClient.stats
    \* ---- latest tickers
    ticker_data_buffer, \* BinanceWebSocketClient.ticker_data_buffer (dict)
    latest_ticker_data, \* Command.latest_ticker_data (dict)
    last_ticker,        \* exchange side: number of the last frame with a ticker of each symbol
    \* ---- flush
    flush_pc,           \* where the flush loop (or the upsert call) is
    tick,               \* flush timer ticks so far
    ticker_snapshot,    \* the copy of the ticker dict the tick in progress took
    batches,            \* the upsert batches of the tick in progress or last completed
    upserts,            \* symbols whose upsert was committed in that tick, in order
    db,                 \* table core_cryptodata: dict symbol -> ticker values
    published,          \* symbols of the delta that tick sent to the subscriber groups
    failed_ticks,       \* ticks in which a batch was dropped
    dropped,            \* the last tick that dropped a batch and the symbols it dropped
    snapshot_tick,      \* the tick at which ticker_snapshot was taken
    last_at_copy,       \* last_ticker as it was when ticker_snapshot was taken
    broadcast,          \* group -> fields of the delta that tick sent to it ({}: none)
    copies,             \* the copies of ticker_data_buffer the flushes took, in order
    \* ---- subscriber connection
    cons_pc,            \* "new", "open" (accepted) or "closed" (disconnect ran)
    user_plan,          \* CryptoConsumer.user_plan
    room_group_name,    \* the group the channel is a member of, or "none"
    heartbeat_task,     \* CryptoConsumer.heartbeat_task: "none", "running", "cancelled"
    auto_refresh_task,  \* CryptoConsumer.auto_refresh_task, likewise
    live_update_tasks,  \* running _send_live_update tasks (no reference is kept)
    requests,           \* messages received from the subscriber
    task_frames,        \* frames the background tasks have sent
    since_disconnect,   \* time since disconnect ran, in steps of the heartbeat interval
    late_frames,        \* frames sent later than one heartbeat interval after disconnect
    last_frame,         \* type of the last frame sent to the subscriber
    first_frame,        \* the first frame sent to the subscriber
    frame_tiers,        \* tiers of the snapshot and delta frames sent to the subscriber
    groups,             \* channel layer: group -> channel names that are members
    peer,               \* a second CryptoConsumer instance: its attributes
    user_subscription_plan, \* CryptoConsumer.user.subscription_plan (the loaded object)
    last_request,       \* the last message received and the frame receive() answered with
    deltas,             \* crypto.update events handled
    account_plan,       \* column subscription_plan of the account's row in the database
    plan_changes,       \* changes of account_plan so far
    heartbeats,         \* heartbeat frames sent
    \* ---- calculators
    close_prices,       \* the close prices of a symbol's window, oldest first
    rsi,                \* the last RSI computed from them and by which implementation
    \* ---- timeframe metrics
    tf_klines,          \* the candles of a symbol's window, oldest first
    metrics,            \* the timeframe fields last computed from them, and by whom
    \* ---- metrics computations in threads
    live_klines,        \* the window of one symbol as the store holds it now
    readers,            \* the computations that read that window, in the order they started
    \* ---- rate limiter
    clock,              \* time.time(), in ticks
    cache,              \* the cache entry rate_limit:<key> and when it expires
    callers,            \* the calls of check_rate_limit in progress, per caller
    calls_made,         \* calls of check_rate_limit started
    allowed_calls,      \* the calls that returned allowed: when, and in which window
    rate_limit,         \* max_requests and window of the limit in force
    calculated_metrics  \* Command.calculated_metrics[symbol]: the task that stored, its window

winVars == <<kline_data_buffer, kline_data, price_history, bar, klines_received, open_sent>>
histVars == <<kline_history>>
symVars == <<known_symbols, init_tasks>>
connVars == <<ing_pc, is_connected, reconnect_delay, db_update_loops, disconnect_called,
              sleep_for, prev_wait, wait_after_fail, sustained, lost_sustained, connects,
              last_event>>
sigVars == <<disconnect_task, ws_state>>
metVars == <<tf_klines, metrics>>
taskVars == <<live_klines, readers, calculated_metrics>>
calcVars == <<close_prices, rsi, metVars, taskVars>>
tickVars == <<ticker_data_buffer, latest_ticker_data, last_ticker, frames_sent, stats>>

flushVars == <<flush_pc, tick, ticker_snapshot, batches, upserts, db, published, failed_ticks,
               dropped, snapshot_tick, last_at_copy, broadcast, copies>>

consVars == <<cons_pc, user_plan, room_group_name, heartbeat_task, auto_refresh_task,
              live_update_tasks, requests, task_frames, since_disconnect, late_frames,
              last_frame, first_frame, frame_tiers, user_subscription_plan, last_request,
              deltas, account_plan, plan_changes, heartbeats, groups, peer>>
rateVars == <<clock, cache, callers, calls_made, allowed_calls, rate_limit>>
vars == <<program, rateVars, calcVars, sigVars, winVars, histVars, symVars, connVars, tickVars, flushVars, consVars>>

\* ================================================================ windows

\* The candle the exchange sends for symbol s: open time and the closed flag.
Kline(s, x) == [t |-> bar[s], x |-> x]

\* The exchange may send a kline of symbol s with closed flag x now.
KlineInput(s, x) ==
    /\ klines_received[s] < (IF EndsWithUSDT(s) THEN MaxKlines ELSE MaxAltKlines)
    /\ (~x => bar[s] <= MaxOpenBars /\ s \notin open_sent)

\* Exchange-side effect of sending a kline: a closed candle starts the next bar.
KlineSent(s, x) ==
    /\ klines_received' = [klines_received EXCEPT ![s] = @ + 1]
    /\ open_sent' = IF x THEN open_sent \ {s} ELSE open_sent \cup {s}
    /\ bar' = IF x THEN [bar EXCEPT ![s] = @ + 1] ELSE bar

\* The history the REST endpoint returns for s: n most recent one-minute candles.
FetchedHistory(s, n) == [i \in 1..n |-> [t |-> bar[s] - n + i - 1]]

\* Lengths a klines?rate_limit=250 response can have in the model.
PrefetchLens == {0, HistoryLimit - 1, HistoryLimit}

\* binance_ws_client.py _handle_kline_update, the buffer write: append, then trim.
AppendTrimNoCap(buf, k) == Append(buf, k)
AppendTrimKeepOldest(buf, k) == IF Len(buf) >= KlineBufferCap THEN buf ELSE Append(buf, k)
AppendTrim65(buf, k) ==
    LET b == Append(buf, k)
    IN  IF Len(b) > KlineBufferCap THEN LastN(b, KlineBufferCap) ELSE b

\* BinanceWebSocketClient._handle_kline_update (a frame of a '@kline_' stream)
HandleKlineUpdate(s, x) ==
    /\ program = "start_binance_ws"
    /\ ing_pc = "listening"
    /\ KlineInput(s, x)
    /\ kline_data_buffer' = [kline_data_buffer EXCEPT ![s] = AppendTrim65(@, Kline(s, x))]
    /\ stats' = [stats EXCEPT !.kline_messages = @ + 1]
    /\ KlineSent(s, x)
    /\ UNCHANGED <<program, rateVars, calcVars, sigVars, consVars, flushVars, histVars, symVars, connVars, kline_data, price_history,
                   ticker_data_buffer, latest_ticker_data, last_ticker, frames_sent>>

\* Command.update_kline_history: np.append, then keep the last 250.
UpdateKlineHistory(hist, s, k) ==
    IF s \notin DOMAIN hist THEN hist
    ELSE LET b == Append(hist[s], [t |-> k.t])
         IN  [hist EXCEPT ![s] = IF Len(b) > KlineHistoryCap THEN LastN(b, KlineHistoryCap) ELSE b]

\* A symbol seen for the first time: known_symbols.add, create_task(initialize_new_symbol).
AutoDetect(s) ==
    /\ known_symbols' = known_symbols \cup {s}
    /\ init_tasks' = IF s \in known_symbols THEN init_tasks ELSE init_tasks \cup {s}

\* Command.receive_websocket_data, the '@kline_1m' branch (under data_lock).
ReceiveKline(s, x) ==
    /\ program = "start_websocket"
    /\ ing_pc = "listening"
    /\ KlineInput(s, x)
    /\ IF EndsWithUSDT(s) /\ x
       THEN /\ AutoDetect(s)
            /\ kline_history' = UpdateKlineHistory(kline_history, s, Kline(s, x))
       ELSE UNCHANGED <<known_symbols, init_tasks, kline_history>>
    /\ KlineSent(s, x)
    /\ UNCHANGED <<program, rateVars, calcVars, sigVars, consVars, flushVars, connVars, tickVars, kline_data_buffer, kline_data, price_history>>

\* Command.initialize_new_symbol: fetch the history in a thread, store it under the lock.
InitializeNewSymbol(s) ==
    /\ program = "start_websocket"
    /\ s \in init_tasks
    /\ init_tasks' = init_tasks \ {s}
    /\ \/ UNCHANGED kline_history                     \* klines is None
       \/ \E n \in PrefetchLens :
            kline_history' = [t \in DOMAIN kline_history \cup {s} |->
                                 IF t = s THEN FetchedHistory(s, n) ELSE kline_history[t]]
    /\ UNCHANGED <<program, rateVars, calcVars, sigVars, consVars, flushVars, winVars, connVars, tickVars, known_symbols>>

\* deque bounded by hand: popleft when 100 entries are held, then append.
DequePush(dq, e) ==
    Append(IF Len(dq) >= DequeCap THEN Tail(dq) ELSE dq, e)

\* KlineDataProcessor.process_kline
ProcessKline(s, x) ==
    /\ program = "dashboard"
    /\ KlineInput(s, x)
    /\ kline_data' = [kline_data EXCEPT ![s] = DequePush(@, Kline(s, x))]
    /\ price_history' = [price_history EXCEPT ![s] = DequePush(@, bar[s])]
    /\ KlineSent(s, x)
    /\ UNCHANGED <<program, rateVars, calcVars, sigVars, consVars, flushVars, histVars, symVars, connVars, tickVars, kline_data_buffer>>

\* The result of a failed history fetch (_fetch_history_for_symbol returns None).
FetchFailed == -1

\* Command.main_logic up to the start of the tasks: get_all_symbols, then
\* prefetch_historical_data.  listed_later: USDT pair 1 is not yet listed;
\* n: the length of the history fetched for pair 1, or FetchFailed.
CmdStartup(listed_later, n) ==
    /\ program = "start_websocket"
    /\ ing_pc = "starting"
    /\ known_symbols' = IF listed_later THEN AllUSDT \ {1} ELSE AllUSDT
    /\ kline_history' = IF listed_later \/ n = FetchFailed THEN <<>>
                        ELSE [s \in {1} |-> FetchedHistory(s, n)]
    /\ ing_pc' = "connecting"
    /\ UNCHANGED <<program, rateVars, calcVars, sigVars, consVars, flushVars, winVars, tickVars, init_tasks, is_connected,
                   reconnect_delay, db_update_loops, disconnect_called, sleep_for,
                   prev_wait, wait_after_fail, sustained, lost_sustained, connects,
                   last_event>>

\* State after construction.
WinInit ==
    /\ kline_data_buffer = [s \in Symbols |-> <<>>]
    /\ kline_data = [s \in Symbols |-> <<>>]
    /\ price_history = [s \in Symbols |-> <<>>]
    /\ klines_received = [s \in Symbols |-> 0]
    /\ open_sent = {}
    /\ bar = [s \in Symbols |-> 1]
    /\ init_tasks = {}
    /\ known_symbols = {}
    /\ kline_history = <<>>

\* ===================================================== exchange connection

\* _reconnect() begins: await asyncio.sleep(d).  failed: the wait follows a failed
\* connection attempt (otherwise the loss of an established connection).
StartWait(d, failed) ==
    /\ ing_pc' = "sleeping"
    /\ prev_wait' = sleep_for
    /\ sleep_for' = d
    /\ wait_after_fail' = failed
    /\ lost_sustained' = (~failed /\ sustained)
    /\ sustained' = FALSE

\* Exponential backoff (max 60 seconds): min(self.reconnect_delay * 2, 60)
NextDelay(d) == Min(d * 2, MaxReconnectDelay)

\* BinanceWebSocketClient.connect, websockets.connect succeeds: is_connected = True,
\* create_task(_db_update_loop()), then _listen().
WsConnectOk ==
    /\ program = "start_binance_ws"
    /\ ing_pc = "connecting"
    /\ is_connected' = TRUE
    /\ db_update_loops' = db_update_loops + 1
    /\ ing_pc' = "listening"
    /\ last_event' = "connect_ok"
    /\ ws_state' = "open"
    /\ UNCHANGED <<program, rateVars, calcVars, disconnect_task, consVars, flushVars, winVars, histVars, symVars, tickVars, reconnect_delay,
                   disconnect_called, sleep_for, prev_wait, wait_after_fail, sustained,
                   lost_sustained, connects>>

\* BinanceWebSocketClient.connect, websockets.connect raises (refused, DNS, timeout):
\* is_connected = False, then _reconnect().
WsConnectFail ==
    /\ program = "start_binance_ws"
    /\ ing_pc = "connecting"
    /\ is_connected' = FALSE
    /\ StartWait(reconnect_delay, TRUE)
    /\ last_event' = "connect_fail"
    /\ UNCHANGED <<program, rateVars, calcVars, sigVars, consVars, flushVars, winVars, histVars, symVars, tickVars, reconnect_delay,
                   db_update_loops, disconnect_called, connects>>

\* BinanceWebSocketClient._reconnect after the sleep: double the delay, connect().
WsReconnectWake ==
    /\ program = "start_binance_ws"
    /\ ing_pc = "sleeping"
    /\ connects < MaxConnects
    /\ reconnect_delay' = NextDelay(reconnect_delay)
    /\ ing_pc' = "connecting"
    /\ connects' = connects + 1
    /\ last_event' = "wake"
    /\ UNCHANGED <<program, rateVars, calcVars, sigVars, consVars, flushVars, winVars, histVars, symVars, tickVars, is_connected,
                   db_update_loops, disconnect_called, sleep_for, prev_wait,
                   wait_after_fail, sustained, lost_sustained>>

\* _listen: the connection is closed with an error code or is lost
\* (ConnectionClosed raised by the iterator), or another exception ends the loop.
WsConnectionClosedError ==
    /\ program = "start_binance_ws"
    /\ ing_pc = "listening"
    /\ is_connected' = FALSE
    /\ StartWait(reconnect_delay, FALSE)
    /\ last_event' = "closed_error"
    /\ ws_state' = "none"
    /\ UNCHANGED <<program, rateVars, calcVars, disconnect_task, consVars, flushVars, winVars, histVars, symVars, tickVars, reconnect_delay,
                   db_update_loops, disconnect_called, connects>>

\* _listen: the server closes the connection cleanly (code 1000 or 1001).  The
\* websockets iterator then ends without raising: `async for` finishes, _listen
\* returns, and connect() returns.
WsConnectionClosedOK ==
    /\ program = "start_binance_ws"
    /\ ing_pc = "listening"
    /\ ing_pc' = "returned"
    /\ last_event' = "closed_ok"
    /\ ws_state' = "closed"
    /\ UNCHANGED <<program, rateVars, calcVars, disconnect_task, consVars, flushVars, winVars, histVars, symVars, tickVars, is_connected,
                   reconnect_delay, db_update_loops, disconnect_called, sleep_for,
                   prev_wait, wait_after_fail, sustained, lost_sustained, connects>>

\* BinanceWebSocketClient.disconnect: is_connected = False, ws.close().  An open
\* connection is closed cleanly, which ends _listen's iterator without raising.
WsDisconnect ==
    /\ program = "start_binance_ws"
    /\ ~disconnect_called
    /\ ing_pc \notin {"returned", "exiting", "exited"}
    /\ disconnect_called' = TRUE
    /\ is_connected' = FALSE
    /\ ing_pc' = IF ing_pc = "listening" THEN "returned" ELSE ing_pc
    /\ last_event' = "disconnect"
    /\ ws_state' = IF ws_state = "open" THEN "closed" ELSE ws_state
    /\ UNCHANGED <<program, rateVars, calcVars, disconnect_task, consVars, flushVars, winVars, histVars, symVars, tickVars, reconnect_delay,
                   db_update_loops, sleep_for, prev_wait, wait_after_fail, sustained,
                   lost_sustained, connects>>

\* A task that is cancelled before its first step never runs its body.
CancelUnstarted(task) == IF task = "created" THEN "cancelled" ELSE task

\* start_binance_ws handle_signal on SIGINT or SIGTERM, while asyncio.run is
\* running: create_task(self.client.disconnect()), then sys.exit(0).  SystemExit
\* is raised in the handler, before the event loop gets to run the new task.
WsHandleSignal ==
    /\ program = "start_binance_ws"
    /\ ing_pc \in {"connecting", "listening", "sleeping"}
    /\ disconnect_task' = "created"
    /\ ing_pc' = "exiting"
    /\ last_event' = "signal"
    /\ UNCHANGED <<program, rateVars, calcVars, ws_state, consVars, flushVars, winVars, histVars, symVars, tickVars,
                   is_connected, reconnect_delay, db_update_loops, disconnect_called,
                   sleep_for, prev_wait, wait_after_fail, sustained, lost_sustained,
                   connects>>

\* asyncio.run(self.run_client()) unwinds on SystemExit: the remaining tasks are
\* cancelled, the loop is closed, handle()'s finally prints and the process exits.
WsRunUnwinds ==
    /\ program = "start_binance_ws"
    /\ ing_pc = "exiting"
    /\ ing_pc' = "exited"
    /\ disconnect_task' = CancelUnstarted(disconnect_task)
    /\ db_update_loops' = 0
    /\ UNCHANGED <<program, rateVars, calcVars, ws_state, consVars, flushVars, winVars, histVars, symVars, tickVars,
                   is_connected, reconnect_delay, disconnect_called, sleep_for, prev_wait,
                   wait_after_fail, sustained, lost_sustained, connects, last_event>>

\* _db_update_loop: `while self.is_connected` is found false, the task ends.
WsDbLoopExit ==
    /\ program = "start_binance_ws"
    /\ db_update_loops > 0
    /\ ~is_connected
    /\ db_update_loops' = db_update_loops - 1
    /\ UNCHANGED <<program, rateVars, calcVars, sigVars, consVars, flushVars, winVars, histVars, symVars, tickVars, ing_pc, is_connected,
                   reconnect_delay, disconnect_called, sleep_for, prev_wait,
                   wait_after_fail, sustained, lost_sustained, connects, last_event>>

\* Time passes on an open connection: it has now been up for a sustained period.
\* Neither implementation reacts to that.
StayConnected ==
    /\ program \in {"start_binance_ws", "start_websocket"}
    /\ ing_pc = "listening"
    /\ ~sustained
    /\ sustained' = TRUE
    /\ UNCHANGED <<program, rateVars, calcVars, sigVars, consVars, flushVars, winVars, histVars, symVars, tickVars, ing_pc, is_connected,
                   reconnect_delay, db_update_loops, disconnect_called, sleep_for,
                   prev_wait, wait_after_fail, lost_sustained, connects, last_event>>

\* Command.receive_websocket_data: websockets.connect succeeds.
CmdConnectOk ==
    /\ program = "start_websocket"
    /\ ing_pc = "connecting"
    /\ ing_pc' = "listening"
    /\ last_event' = "connect_ok"
    /\ UNCHANGED <<program, rateVars, calcVars, sigVars, consVars, flushVars, winVars, histVars, symVars, tickVars, is_connected,
                   reconnect_delay, db_update_loops, disconnect_called, sleep_for,
                   prev_wait, wait_after_fail, sustained, lost_sustained, connects>>

\* Command.receive_websocket_data: websockets.connect raises; except Exception:
\* await asyncio.sleep(5).
CmdConnectFail ==
    /\ program = "start_websocket"
    /\ ing_pc = "connecting"
    /\ StartWait(CommandReconnectSleep, TRUE)
    /\ last_event' = "connect_fail"
    /\ UNCHANGED <<program, rateVars, calcVars, sigVars, consVars, flushVars, winVars, histVars, symVars, tickVars, is_connected,
                   reconnect_delay, db_update_loops, disconnect_called, connects>>

\* Command.receive_websocket_data: the sleep ends, `while True` connects again.
CmdWake ==
    /\ program = "start_websocket"
    /\ ing_pc = "sleeping"
    /\ connects < MaxConnects
    /\ ing_pc' = "connecting"
    /\ connects' = connects + 1
    /\ last_event' = "wake"
    /\ UNCHANGED <<program, rateVars, calcVars, sigVars, consVars, flushVars, winVars, histVars, symVars, tickVars, is_connected,
                   reconnect_delay, db_update_loops, disconnect_called, sleep_for,
                   prev_wait, wait_after_fail, sustained, lost_sustained>>

\* Command.receive_websocket_data: the iterator raises ConnectionClosedError.
CmdConnectionClosedError ==
    /\ program = "start_websocket"
    /\ ing_pc = "listening"
    /\ StartWait(CommandReconnectSleep, FALSE)
    /\ last_event' = "closed_error"
    /\ UNCHANGED <<program, rateVars, calcVars, sigVars, consVars, flushVars, winVars, histVars, symVars, tickVars, is_connected,
                   reconnect_delay, db_update_loops, disconnect_called, connects>>

\* Command.receive_websocket_data: clean close; `async for` ends, the `async with`
\* block is left and `while True` connects again at once.
CmdConnectionClosedOK ==
    /\ program = "start_websocket"
    /\ ing_pc = "listening"
    /\ connects < MaxConnects
    /\ ing_pc' = "connecting"
    /\ connects' = connects + 1
    /\ sustained' = FALSE
    /\ last_event' = "closed_ok"
    /\ UNCHANGED <<program, rateVars, calcVars, sigVars, consVars, flushVars, winVars, histVars, symVars, tickVars, is_connected,
                   reconnect_delay, db_update_loops, disconnect_called, sleep_for,
                   prev_wait, wait_after_fail, lost_sustained>>

\* ============================================================ ticker frames

\* The symbols of a '!ticker@arr' frame, in the order the frame lists them:
\* optionally the non-USDT pair, then the USDT pairs lo..hi.
FrameSymbols(lo, hi, alt) ==
    (IF alt THEN <<0>> ELSE <<>>) \o [i \in 1..(hi - lo + 1) |-> lo + i - 1]

\* The tickers of a frame as <<symbol, values>> items; v stands for the values.
Tickers(syms, v) == [i \in 1..Len(syms) |-> <<syms[i], v>>]

\* Exchange side: the tickers of frame v were sent for the symbols syms.
TickersSent(last, syms, v) ==
    LET S == {syms[i] : i \in 1..Len(syms)}
    IN  [s \in DOMAIN last |-> IF s \in S THEN v ELSE last[s]]

\* The exchange delivers one more frame.
FrameInput ==
    /\ ing_pc = "listening"
    /\ frames_sent < MaxFrames
    /\ frames_sent' = frames_sent + 1

\* BinanceWebSocketClient._listen / _handle_message / _handle_ticker_update:
\* a ticker array is buffered, one entry per symbol.
WsFrameTicker(lo, hi, alt) ==
    /\ program = "start_binance_ws"
    /\ FrameInput
    /\ ticker_data_buffer' = DictUpdate(ticker_data_buffer,
                                        Tickers(FrameSymbols(lo, hi, alt), frames_sent + 1))
    /\ last_ticker' = TickersSent(last_ticker, FrameSymbols(lo, hi, alt), frames_sent + 1)
    /\ stats' = [stats EXCEPT !.ticker_messages = @ + 1]
    /\ last_event' = "ticker"
    /\ UNCHANGED <<program, rateVars, calcVars, sigVars, consVars, flushVars, winVars, histVars, symVars, latest_ticker_data, ing_pc,
                   is_connected, reconnect_delay, db_update_loops, disconnect_called,
                   sleep_for, prev_wait, wait_after_fail, sustained, lost_sustained, connects>>

\* BinanceWebSocketClient._listen: json.loads raises JSONDecodeError; a warning is
\* logged and the loop takes the next message.
WsFrameMalformed ==
    /\ program = "start_binance_ws"
    /\ FrameInput
    /\ last_event' = "malformed"
    /\ UNCHANGED <<program, rateVars, calcVars, sigVars, consVars, flushVars, winVars, histVars, symVars, ticker_data_buffer,
                   latest_ticker_data, last_ticker, stats, ing_pc, is_connected, reconnect_delay,
                   db_update_loops, disconnect_called, sleep_for, prev_wait,
                   wait_after_fail, sustained, lost_sustained, connects>>

\* BinanceWebSocketClient._listen: _handle_message raises on a frame of an
\* unexpected shape; the error is logged and counted.
WsFrameHandlerError ==
    /\ program = "start_binance_ws"
    /\ FrameInput
    /\ stats' = [stats EXCEPT !.errors = @ + 1]
    /\ last_event' = "handler_error"
    /\ UNCHANGED <<program, rateVars, calcVars, sigVars, consVars, flushVars, winVars, histVars, symVars, ticker_data_buffer,
                   latest_ticker_data, last_ticker, ing_pc, is_connected, reconnect_delay,
                   db_update_loops, disconnect_called, sleep_for, prev_wait,
                   wait_after_fail, sustained, lost_sustained, connects>>

\* The USDT symbols of a frame, in order.
OnlyUSDT(syms) == SelectSeq(syms, EndsWithUSDT)

\* Command.receive_websocket_data, the '!ticker@arr' branch (under data_lock):
\* USDT tickers overwrite latest_ticker_data; unknown symbols are auto-detected.
CmdFrameTicker(lo, hi, alt) ==
    /\ program = "start_websocket"
    /\ FrameInput
    /\ LET syms == OnlyUSDT(FrameSymbols(lo, hi, alt))
           new == {syms[i] : i \in 1..Len(syms)} \ known_symbols
       IN  /\ latest_ticker_data' = DictUpdate(latest_ticker_data, Tickers(syms, frames_sent + 1))
           /\ known_symbols' = known_symbols \cup new
           /\ init_tasks' = init_tasks \cup new
    /\ last_ticker' = TickersSent(last_ticker, FrameSymbols(lo, hi, alt), frames_sent + 1)
    /\ last_event' = "ticker"
    /\ UNCHANGED <<program, rateVars, calcVars, sigVars, consVars, flushVars, winVars, histVars, ticker_data_buffer, stats, ing_pc,
                   is_connected, reconnect_delay, db_update_loops, disconnect_called,
                   sleep_for, prev_wait, wait_after_fail, sustained, lost_sustained, connects>>

\* Command.receive_websocket_data: `if not stream_type or not payload: continue`
CmdFrameSkipped ==
    /\ program = "start_websocket"
    /\ FrameInput
    /\ last_event' = "skipped"
    /\ UNCHANGED <<program, rateVars, calcVars, sigVars, consVars, flushVars, winVars, histVars, symVars, ticker_data_buffer,
                   latest_ticker_data, last_ticker, stats, ing_pc, is_connected, reconnect_delay,
                   db_update_loops, disconnect_called, sleep_for, prev_wait,
                   wait_after_fail, sustained, lost_sustained, connects>>

\* Command.receive_websocket_data: json.loads (kind "malformed") or the handling of
\* the frame (kind "handler_error") raises.  Nothing inside `async for` catches it:
\* the exception leaves the `async with` block, which closes the connection, and
\* reaches `except Exception`: await asyncio.sleep(5).
CmdFrameRaises(kind) ==
    /\ program = "start_websocket"
    /\ ing_pc = "listening"
    /\ frames_sent < MaxFrames
    /\ frames_sent' = frames_sent + 1
    /\ StartWait(CommandReconnectSleep, FALSE)
    /\ last_event' = kind
    /\ UNCHANGED <<program, rateVars, calcVars, sigVars, consVars, flushVars, winVars, histVars, symVars, ticker_data_buffer,
                   latest_ticker_data, last_ticker, stats, is_connected, reconnect_delay,
                   db_update_loops, disconnect_called, connects>>

\* =================================================================== flush

\* [items[i:i + size] for i in range(0, len(items), size)]
SplitBatches(items, size) ==
    [b \in 1..((Len(items) + size - 1) \div size) |->
        SubSeq(items, (b - 1) * size + 1, Min(b * size, Len(items)))]

RECURSIVE Flatten(_)
Flatten(seqs) == IF seqs = <<>> THEN <<>> ELSE Head(seqs) \o Flatten(Tail(seqs))

\* The keys of a sequence of <<key, value>> items, in order.
ItemKeys(items) == [i \in 1..Len(items) |-> items[i][1]]

\* INSERT ... ON CONFLICT (symbol) DO UPDATE, one row per item.
UpsertRows(table, items) == DictUpdate(table, items)

\* What a database call can end with, as the except clauses see it.
\* "deadlock", "serialization": psycopg2.errors.DeadlockDetected, SerializationFailure;
\* "operational_deadlock": the same failure as django.db.utils.OperationalError;
\* "integrity_deadlock": IntegrityError whose text holds 'deadlock detected';
\* "row_error": the database rejects the row of one symbol (a DataError);
\* "other": any other exception.
Outcomes == {"ok", "deadlock", "serialization", "operational_deadlock",
             "integrity_deadlock", "row_error", "other"}

\* An except clause that retries whatever was raised.
TransientAny(impl, outcome) == outcome # "ok"

\* The except clause that retries: psycopg2 DeadlockDetected / SerializationFailure
\* in bulk_upsert_crypto_data_raw_sql, an IntegrityError whose text holds
\* 'deadlock detected' in bulk_upsert_crypto_data.
Transient(impl, outcome) ==
    IF impl = "raw_sql" THEN outcome \in {"deadlock", "serialization"}
    ELSE outcome = "integrity_deadlock"

\* attempt < max_retries - 1
MayRetryOffByOne(attempt) == attempt < MaxRetries
MayRetry(attempt) == attempt < MaxRetries - 1

\* wait_time = (2 ** attempt) * 0.1
BackoffWait(attempt) == (2 ^ attempt) * BackoffUnit

NewBatch(items, impl) ==
    [items |-> items, impl |-> impl, attempt |-> 0, attempts |-> 0,
     status |-> "pending", waits |-> <<>>, last_error |-> "none"]

\* One pass of `for attempt in range(max_retries)` of bulk_upsert_crypto_data_raw_sql
\* or bulk_upsert_crypto_data on batch b: the transaction commits, or a transient
\* error is retried after the backoff wait, or the exception is raised.
UpsertAttempt(b, outcome) ==
    /\ flush_pc \in {"gathering", "call"}
    /\ b \in 1..Len(batches)
    /\ batches[b].status = "pending"
    /\ LET B == batches[b]
           tried == [B EXCEPT !.attempts = @ + 1]
       IN  IF outcome = "ok"
           THEN /\ batches' = [batches EXCEPT ![b] = [tried EXCEPT !.status = "done"]]
                /\ db' = UpsertRows(db, B.items)
                /\ upserts' = upserts \o ItemKeys(B.items)
           ELSE /\ IF Transient(B.impl, outcome) /\ MayRetry(B.attempt)
                   THEN batches' = [batches EXCEPT ![b] =
                            [tried EXCEPT !.attempt = @ + 1, !.last_error = outcome,
                                          !.waits = Append(@, BackoffWait(B.attempt))]]
                   ELSE batches' = [batches EXCEPT ![b] =
                            [tried EXCEPT !.status = "failed", !.last_error = outcome]]
                /\ UNCHANGED <<db, upserts>>
    /\ UNCHANGED <<program, rateVars, calcVars, sigVars, consVars, winVars, histVars, symVars, connVars, tickVars,
                   flush_pc, tick, ticker_snapshot, published, failed_ticks,
                   dropped, snapshot_tick, last_at_copy, broadcast, copies>>

\* utils.upsert_crypto_data returns the statistics or lets the exception through.
UpsertCallEnds ==
    /\ program = "upsert_crypto_data"
    /\ flush_pc = "call"
    /\ \A b \in 1..Len(batches) : batches[b].status # "pending"
    /\ flush_pc' = IF \E b \in 1..Len(batches) : batches[b].status = "failed"
                   THEN "raised" ELSE "returned"
    /\ UNCHANGED <<program, rateVars, calcVars, sigVars, consVars, winVars, histVars, symVars, connVars, tickVars,
                   tick, ticker_snapshot, batches, upserts, db, published, failed_ticks,
                   dropped, snapshot_tick, last_at_copy, broadcast, copies>>

\* serializers.py: the fields of the three serializers, by representatives.
\* 'symbol', 'last_price' stand for the six fields of CryptoDataFreeSerializer,
\* 'rsi_1m' for the fields CryptoDataBasicSerializer adds, 'id' for those only
\* fields = '__all__' of CryptoDataSerializer has.
FreeFields == {"symbol", "last_price"}
BasicFields == FreeFields \cup {"rsi_1m"}
FullFields == BasicFields \cup {"id"}

Groups == {"crypto_free", "crypto_premium", "crypto_enterprise"}

NoBroadcast == [g \in Groups |-> {}]

\* premium_data = CryptoDataSerializer(...), free_data = CryptoDataFreeSerializer(...);
\* group_send of free_data to crypto_free, of premium_data to crypto_premium and
\* to crypto_enterprise.
GroupSend ==
    [g \in Groups |-> IF g = "crypto_free" THEN FreeFields ELSE FullFields]

\* Command.save_and_broadcast_data after the sleep: copy latest_ticker_data under
\* the lock, split it into batches of 75 and start process_symbol_batch for each.
CmdFlushTick ==
    /\ program = "start_websocket"
    /\ flush_pc = "sleeping"
    /\ tick < MaxTicks
    /\ tick' = tick + 1
    /\ IF latest_ticker_data = <<>>
       THEN UNCHANGED <<flush_pc, ticker_snapshot, batches, upserts, published,
                        snapshot_tick, last_at_copy, broadcast>>               \* continue
       ELSE /\ ticker_snapshot' = latest_ticker_data
            /\ snapshot_tick' = tick + 1
            /\ last_at_copy' = last_ticker
            /\ broadcast' = NoBroadcast
            /\ batches' = LET parts == SplitBatches(latest_ticker_data, BatchSize)
                          IN  [b \in 1..Len(parts) |-> NewBatch(parts[b], "raw_sql")]
            /\ upserts' = <<>>
            /\ published' = <<>>
            /\ flush_pc' = "gathering"
    /\ UNCHANGED <<program, rateVars, calcVars, sigVars, consVars, winVars, histVars, symVars, connVars, tickVars,
                   db, failed_ticks, dropped, copies>>

\* asyncio.gather(*batch_tasks, return_exceptions=True): an exception of a batch
\* is a result, it does not propagate.
GatherPropagatesFirst(bs) == \E b \in 1..Len(bs) : bs[b].status = "failed"
GatherPropagates(bs) == FALSE

AllUpdatedDataEveryBatch(bs) == Flatten([b \in 1..Len(bs) |-> bs[b].items])

\* The results of the batches that did not raise, concatenated.
AllUpdatedData(bs) ==
    Flatten([b \in 1..Len(bs) |-> IF bs[b].status = "done" THEN bs[b].items ELSE <<>>])

\* The symbols of the batches that raised.
FailedSymbols(bs) ==
    UNION {{bs[b].items[i][1] : i \in 1..Len(bs[b].items)} :
              b \in {c \in 1..Len(bs) : bs[c].status = "failed"}}

\* Command.save_and_broadcast_data once gather returns: failed batches are logged,
\* the data of the others is broadcast, and the loop sleeps again.
CmdGather ==
    /\ program = "start_websocket"
    /\ flush_pc = "gathering"
    /\ \A b \in 1..Len(batches) : batches[b].status # "pending"
    /\ IF GatherPropagates(batches)
       THEN /\ flush_pc' = "crashed"
            /\ UNCHANGED <<published, broadcast>>
       ELSE /\ flush_pc' = "sleeping"
            /\ published' = ItemKeys(AllUpdatedData(batches))
            /\ broadcast' = IF AllUpdatedData(batches) # <<>>
                            THEN GroupSend ELSE broadcast
    /\ IF \E b \in 1..Len(batches) : batches[b].status = "failed"
       THEN /\ failed_ticks' = failed_ticks \cup {tick}
            /\ dropped' = [tick |-> tick, symbols |-> FailedSymbols(batches)]
       ELSE UNCHANGED <<failed_ticks, dropped>>
    /\ UNCHANGED <<program, rateVars, calcVars, sigVars, consVars, winVars, histVars, symVars, connVars, tickVars,
                   tick, ticker_snapshot, batches, upserts, db, snapshot_tick, last_at_copy, copies>>

\* Command.save_and_broadcast_data once gather returns, a group_send (or a
\* serializer) raises: nothing in the loop catches it, the coroutine ends with the
\* exception, asyncio.gather in main_logic re-raises it and asyncio.run cancels
\* the receive_websocket_data tasks.
CmdBroadcastRaises ==
    /\ program = "start_websocket"
    /\ flush_pc = "gathering"
    /\ \A b \in 1..Len(batches) : batches[b].status # "pending"
    /\ AllUpdatedData(batches) # <<>>
    /\ flush_pc' = "crashed"
    /\ ing_pc' = "cancelled"
    /\ last_event' = "cancelled"
    /\ UNCHANGED <<program, rateVars, calcVars, sigVars, consVars, winVars, histVars, symVars, tickVars,
                   is_connected, reconnect_delay, db_update_loops, disconnect_called,
                   sleep_for, prev_wait, wait_after_fail, sustained, lost_sustained,
                   connects, tick, ticker_snapshot, batches, upserts, db, published, failed_ticks,
                   dropped, snapshot_tick, last_at_copy, broadcast, copies>>

\* Command.handle: except Exception, time.sleep(10), asyncio.run(main_logic()) again.
CmdHandleRestarts ==
    /\ program = "start_websocket"
    /\ ing_pc = "cancelled"
    /\ ing_pc' = "starting"
    /\ flush_pc' = "sleeping"
    /\ last_event' = "restart"
    /\ UNCHANGED <<program, rateVars, calcVars, sigVars, consVars, winVars, histVars, symVars, tickVars,
                   is_connected, reconnect_delay, db_update_loops, disconnect_called,
                   sleep_for, prev_wait, wait_after_fail, sustained, lost_sustained,
                   connects, tick, ticker_snapshot, batches, upserts, db, published,
                   failed_ticks, dropped, snapshot_tick, last_at_copy, broadcast, copies>>

\* BinanceWebSocketClient._db_update_loop after the sleep, and the start of
\* _update_database: copy the buffer, clear it, hand the copy to batch_update.
WsFlushTick ==
    /\ program = "start_binance_ws"
    /\ flush_pc = "sleeping"
    /\ db_update_loops > 0
    /\ is_connected
    /\ tick < MaxTicks
    /\ tick' = tick + 1
    /\ IF ticker_data_buffer = <<>>
       THEN UNCHANGED <<flush_pc, ticker_snapshot, upserts, ticker_data_buffer,
                        snapshot_tick, last_at_copy, copies>>
       ELSE /\ ticker_snapshot' = ticker_data_buffer
            /\ copies' = Append(copies, ticker_data_buffer)
            /\ snapshot_tick' = tick + 1
            /\ last_at_copy' = last_ticker
            /\ ticker_data_buffer' = DictClear(ticker_data_buffer)
            /\ upserts' = <<>>
            /\ flush_pc' = "writing"
    /\ UNCHANGED <<program, rateVars, calcVars, sigVars, consVars, winVars, histVars, symVars, connVars, latest_ticker_data, last_ticker,
                   frames_sent, stats, batches, db, published, failed_ticks, dropped,
                   broadcast>>

\* The items of a dict without those of the symbols in bad.
WithoutSymbols(items, bad) ==
    LET Kept(it) == it[1] \notin bad
    IN  SelectSeq(items, Kept)

\* BinanceWebSocketClient._update_database, batch_update: one transaction with an
\* update_or_create per symbol of the copy.  An exception of one symbol
\* ("row_error") is caught inside the loop: update_or_create has rolled back to
\* its own savepoint, the loop goes to the next symbol and the transaction
\* commits.  A failure of the transaction is logged and counted; the loop goes on
\* either way.
WsFlushWrite(outcome) ==
    /\ program = "start_binance_ws"
    /\ flush_pc = "writing"
    /\ IF outcome \in {"ok", "row_error"}
       THEN /\ \E bad \in IF outcome = "ok" THEN {{}}
                           ELSE {{k} : k \in DictKeys(ticker_snapshot)} :
                    /\ db' = UpsertRows(db, WithoutSymbols(ticker_snapshot, bad))
                    /\ upserts' = ItemKeys(WithoutSymbols(ticker_snapshot, bad))
            /\ stats' = [stats EXCEPT !.db_updates = @ + 1]
            /\ UNCHANGED <<failed_ticks, dropped>>
       ELSE /\ stats' = [stats EXCEPT !.errors = @ + 1]
            /\ failed_ticks' = failed_ticks \cup {tick}
            /\ dropped' = [tick |-> tick,
                           symbols |-> {ticker_snapshot[i][1] : i \in 1..Len(ticker_snapshot)}]
            /\ UNCHANGED <<db, upserts>>
    /\ flush_pc' = "sleeping"
    /\ UNCHANGED <<program, rateVars, calcVars, sigVars, consVars, winVars, histVars, symVars, connVars, ticker_data_buffer,
                   latest_ticker_data, last_ticker, frames_sent, tick, ticker_snapshot, batches, published,
                   snapshot_tick, last_at_copy, broadcast, copies>>

\* The list a direct call of upsert_crypto_data is given.
CallItems == <<<<1, 1>>, <<2, 1>>>>

FlushInit ==
    /\ tick = 0
    /\ ticker_snapshot = <<>>
    /\ upserts = <<>>
    /\ db = <<>>
    /\ published = <<>>
    /\ failed_ticks = {}
    /\ dropped = [tick |-> 0, symbols |-> {}]
    /\ snapshot_tick = 0
    /\ copies = <<>>
    /\ last_at_copy = [s \in 0..MaxTickerSymbols |-> 0]
    /\ broadcast = NoBroadcast
    /\ IF program = "upsert_crypto_data"
       THEN /\ flush_pc = "call"
            /\ \E impl \in {"raw_sql", "orm"} : batches = <<NewBatch(CallItems, impl)>>
       ELSE /\ flush_pc = "sleeping"
            /\ batches = <<>>

\* ==================================================== subscriber connection

\* plan_to_group.get(plan, 'crypto_free')
PlanToGroup(plan) ==
    CASE plan = "basic" -> "crypto_premium"
      [] plan = "enterprise" -> "crypto_enterprise"
      [] OTHER -> "crypto_free"

\* Task.cancel() on a stored task reference, guarded by `if self.<task>`.
CancelTask(task) == IF task = "running" THEN "cancelled" ELSE task

\* The channel names of the two connections.
OwnChannel == "channel.own"
PeerChannel == "channel.peer"

\* channel_layer.group_add(group, channel)
GroupAdd(gs, group, channel) == [gs EXCEPT ![group] = @ \cup {channel}]

\* A discard that empties the group.
GroupDiscardAll(gs, group, channel) == [gs EXCEPT ![group] = {}]

\* channel_layer.group_discard(group, channel), under `if self.room_group_name`.
GroupDiscard(gs, group, channel) ==
    IF group = "none" THEN gs ELSE [gs EXCEPT ![group] = @ \ {channel}]

\* The attributes of a CryptoConsumer instance that connect() has not run on.
NoPeer ==
    [pc |-> "new", room_group_name |-> "none", heartbeat_task |-> "none",
     auto_refresh_task |-> "none"]

\* The inverse of plan_to_group: the tier a group stands for.
GroupTier(group) ==
    CASE group = "crypto_premium" -> "basic"
      [] group = "crypto_enterprise" -> "enterprise"
      [] OTHER -> "free"

\* get_user(token) loads the row; without a token self.user stays AnonymousUser,
\* whose subscription_plan getattr() defaults to 'free'.
LoadedPlan(authenticated, account) == IF authenticated THEN account ELSE "free"

\* The ws_ack frame of connect.
AckFrameAnonymous(group, plan) == [type |-> "ws_ack", group |-> "crypto_free", plan |-> "free"]
AckFrame(group, plan) == [type |-> "ws_ack", group |-> group, plan |-> plan]

NoFrame == [type |-> "none", group |-> "none", plan |-> "none"]
OtherFrame(type) == [type |-> type, group |-> "none", plan |-> "none"]

\* The first frame sent stays the first.
FirstOf(first, frame) == IF first = NoFrame THEN frame ELSE first

\* receive(): user_plan = getattr(self.user, 'subscription_plan', 'free'), the
\* attribute of the object loaded at connect; the row is not read again.
RequestPlanReloaded(user_attr, account) == account
RequestPlan(user_attr, account) == user_attr

\* receive(): "Determine serializer based on plan".
SerializerClass(plan) ==
    CASE plan = "enterprise" -> "CryptoDataSerializer"
      [] plan = "basic" -> "CryptoDataBasicSerializer"
      [] OTHER -> "CryptoDataFreeSerializer"

\* serializers.py docstrings: FULL for Enterprise, INTERMEDIATE for Basic,
\* LIMITED for Free.
SerializerTier(cls) ==
    CASE cls = "CryptoDataSerializer" -> "enterprise"
      [] cls = "CryptoDataBasicSerializer" -> "basic"
      [] OTHER -> "free"

\* page_size = int(message.get('page_size') or 100); 0 stands for an absent field.
PageSize(field) == IF field = 0 THEN DefaultPageSize ELSE field

\* len(qs[offset:offset + limit]) for a queryset of `rows` rows.
SliceLen(rows, offset, limit) ==
    IF rows <= offset THEN 0 ELSE Min(rows - offset, limit)

\* _get_snapshot_chunk(..., 0, min(page_size, 1000), quote) and
\* _get_snapshot_chunk_all(..., 0, min(page_size, 2000)): the number of rows.
SnapshotChunk(rows, page_size, all) ==
    SliceLen(rows, 0, Min(page_size, IF all THEN SnapshotLimitAll ELSE SnapshotLimit))

NoRequest ==
    [msg |-> "none", answer |-> "none", chunk |-> 0, total_chunks |-> 0, items |-> 0,
     page_size |-> 0, rows |-> 0, serializer |-> "none", account |-> "none",
     open_after |-> TRUE]

\* receive(): message.get(...) on a JSON value that is no object raises
\* AttributeError, int() of a page_size that is no number raises ValueError;
\* neither is caught, so the exception leaves the handler.
ReceiveRaises(msg) == msg \in {"wrong_shape", "bad_page_size"}

\* A background task sends a frame; it is late when disconnect ran more than one
\* heartbeat interval ago.
TaskSends(type) ==
    /\ task_frames < MaxTaskFrames
    /\ task_frames' = task_frames + 1
    /\ last_frame' = type
    /\ first_frame' = FirstOf(first_frame, OtherFrame(type))
    /\ late_frames' = IF cons_pc = "closed" /\ since_disconnect > HeartbeatInterval
                      THEN late_frames + 1 ELSE late_frames

\* CryptoConsumer.connect: load the user, join the plan's group, accept, send
\* ws_ack, start the heartbeat task and, for basic and enterprise, the
\* auto-refresh task.
ConsConnect(authenticated) ==
    /\ program = "consumer"
    /\ cons_pc = "new"
    /\ cons_pc' = "open"
    /\ LET plan == LoadedPlan(authenticated, account_plan)
       IN  /\ user_subscription_plan' = plan
           /\ user_plan' = plan
           /\ room_group_name' = PlanToGroup(plan)
           /\ groups' = GroupAdd(groups, PlanToGroup(plan), OwnChannel)
           /\ first_frame' = FirstOf(first_frame, AckFrame(PlanToGroup(plan), plan))
           /\ auto_refresh_task' =
                  IF plan \in {"basic", "enterprise"} THEN "running" ELSE "none"
    /\ heartbeat_task' = "running"
    /\ last_frame' = "ws_ack"
    /\ UNCHANGED <<program, rateVars, peer, calcVars, sigVars, winVars, histVars, symVars, connVars, tickVars, flushVars, heartbeats,
                   live_update_tasks, requests, task_frames, since_disconnect, late_frames,
                   frame_tiers, last_request, deltas, account_plan, plan_changes>>

\* CryptoConsumer.receive.  msg: "empty" (no text), "bad_json", "other" (another
\* type), "request_snapshot" (one quote currency) or "request_all" (quote 'ALL');
\* page_size_field is the message's page_size, rows the number of rows the
\* snapshot query matches.
\* A request_snapshot of a basic or enterprise user starts a _send_live_update
\* task with asyncio.create_task and returns; a request of a free user or for
\* 'ALL' is answered with one snapshot frame; every other message is dropped.
\* "wrong_shape" is JSON that is no object, "bad_page_size" a request_snapshot
\* whose page_size is no number: the exception ends the consumer, and with it
\* the connection.
ConsReceive(msg, page_size_field, rows) ==
    /\ program = "consumer"
    /\ cons_pc = "open"
    /\ requests < MaxRequests
    /\ requests' = requests + 1
    /\ cons_pc' = IF ReceiveRaises(msg) THEN "crashed" ELSE cons_pc
    /\ LET plan == RequestPlan(user_subscription_plan, account_plan)
           is_request == msg \in {"request_snapshot", "request_all"}
           fast == msg = "request_snapshot" /\ plan \in {"basic", "enterprise"}
           page_size == PageSize(page_size_field)
           data_chunk == SnapshotChunk(rows, page_size, msg = "request_all")
       IN  /\ live_update_tasks' = IF fast THEN live_update_tasks + 1 ELSE live_update_tasks
           /\ IF is_request /\ ~fast
              THEN /\ last_request' =
                        [msg |-> msg, answer |-> "snapshot", chunk |-> 1,
                         total_chunks |-> 1, items |-> data_chunk,
                         page_size |-> page_size, rows |-> rows,
                         serializer |-> SerializerClass(plan), account |-> account_plan,
                         open_after |-> TRUE]
                   /\ last_frame' = "snapshot"
                   /\ first_frame' = FirstOf(first_frame, OtherFrame("snapshot"))
                   /\ frame_tiers' = frame_tiers \cup {SerializerTier(SerializerClass(plan))}
              ELSE /\ last_request' =
                        IF is_request
                        THEN [NoRequest EXCEPT !.msg = msg, !.page_size = page_size,
                                               !.rows = rows, !.account = account_plan]
                        ELSE [NoRequest EXCEPT !.msg = msg,
                                               !.open_after = ~ReceiveRaises(msg)]
                   /\ UNCHANGED <<last_frame, first_frame, frame_tiers>>
    /\ UNCHANGED <<program, rateVars, groups, peer, calcVars, sigVars, winVars, histVars, symVars, connVars, tickVars, flushVars, heartbeats,
                   user_plan, room_group_name, heartbeat_task, auto_refresh_task,
                   task_frames, since_disconnect, late_frames, user_subscription_plan,
                   deltas, account_plan, plan_changes>>

\* CryptoConsumer.crypto_update: a delta sent to the connection's group is
\* forwarded to the subscriber as a frame of type delta.
ConsCryptoUpdate ==
    /\ program = "consumer"
    /\ cons_pc = "open"
    /\ deltas < MaxDeltas
    /\ deltas' = deltas + 1
    /\ last_frame' = "delta"
    /\ first_frame' = FirstOf(first_frame, OtherFrame("delta"))
    /\ frame_tiers' = frame_tiers \cup {GroupTier(room_group_name)}
    /\ UNCHANGED <<program, rateVars, groups, peer, calcVars, sigVars, winVars, histVars, symVars, connVars, tickVars, flushVars, heartbeats,
                   cons_pc, user_plan, room_group_name, heartbeat_task, auto_refresh_task,
                   live_update_tasks, requests, task_frames, since_disconnect, late_frames,
                   user_subscription_plan, last_request, account_plan, plan_changes>>

\* CryptoConsumer._send_live_update: the fetch from the exchange API returns and,
\* when it returned data, the live_update frame is sent; the task ends.
ConsLiveUpdate(has_data) ==
    /\ program = "consumer"
    /\ live_update_tasks > 0
    /\ live_update_tasks' = live_update_tasks - 1
    /\ IF has_data THEN TaskSends("live_update")
       ELSE UNCHANGED <<task_frames, late_frames, last_frame, first_frame>>
    /\ UNCHANGED <<program, rateVars, groups, peer, calcVars, sigVars, winVars, histVars, symVars, connVars, tickVars, flushVars, heartbeats,
                   cons_pc, user_plan, room_group_name, heartbeat_task, auto_refresh_task,
                   requests, since_disconnect, frame_tiers, user_subscription_plan,
                   last_request, deltas, account_plan, plan_changes>>

ConsHeartbeatOnce ==
    /\ program = "consumer"
    /\ heartbeat_task = "running"
    /\ TaskSends("heartbeat")
    /\ heartbeats' = heartbeats + 1
    /\ heartbeat_task' = "ended"
    /\ UNCHANGED <<program, rateVars, groups, peer, calcVars, sigVars, winVars, histVars, symVars, connVars, tickVars, flushVars,
                   cons_pc, user_plan, room_group_name, auto_refresh_task,
                   live_update_tasks, requests, since_disconnect, frame_tiers,
                   user_subscription_plan, last_request, deltas, account_plan, plan_changes>>

\* CryptoConsumer._heartbeat: after the sleep of 3 s, send a heartbeat frame and
\* sleep again; the loop ends only when it is cancelled or the send raises.
ConsHeartbeat ==
    /\ program = "consumer"
    /\ heartbeat_task = "running"
    /\ TaskSends("heartbeat")
    /\ heartbeats' = heartbeats + 1
    /\ UNCHANGED <<program, rateVars, groups, peer, calcVars, sigVars, winVars, histVars, symVars, connVars, tickVars, flushVars,
                   cons_pc, user_plan, room_group_name, heartbeat_task, auto_refresh_task,
                   live_update_tasks, requests, since_disconnect, frame_tiers,
                   user_subscription_plan, last_request, deltas, account_plan, plan_changes>>

\* CryptoConsumer._auto_refresh_loop: after the sleep, fetch and send a live_update.
ConsAutoRefresh ==
    /\ program = "consumer"
    /\ auto_refresh_task = "running"
    /\ TaskSends("auto_refresh")
    /\ UNCHANGED <<program, rateVars, groups, peer, calcVars, sigVars, winVars, histVars, symVars, connVars, tickVars, flushVars, heartbeats,
                   cons_pc, user_plan, room_group_name, heartbeat_task, auto_refresh_task,
                   live_update_tasks, requests, since_disconnect, frame_tiers,
                   user_subscription_plan, last_request, deltas, account_plan, plan_changes>>

\* CryptoConsumer.disconnect: leave the group, cancel heartbeat_task and
\* auto_refresh_task.
ConsDisconnect ==
    /\ program = "consumer"
    /\ cons_pc = "open"
    /\ cons_pc' = "closed"
    /\ groups' = GroupDiscard(groups, room_group_name, OwnChannel)
    /\ room_group_name' = "none"
    /\ heartbeat_task' = CancelTask(heartbeat_task)
    /\ auto_refresh_task' = CancelTask(auto_refresh_task)
    /\ UNCHANGED <<program, rateVars, peer, calcVars, sigVars, winVars, histVars, symVars, connVars, tickVars, flushVars, heartbeats,
                   user_plan, live_update_tasks, requests, task_frames, since_disconnect,
                   late_frames, last_frame, first_frame, frame_tiers,
                   user_subscription_plan, last_request, deltas, account_plan, plan_changes>>

\* CryptoConsumer.connect on the second instance, whose user has the given plan:
\* join the plan's group, start the heartbeat task and, for basic and
\* enterprise, the auto-refresh task.
PeerConnect(plan) ==
    /\ program = "consumer"
    /\ peer.pc = "new"
    /\ peer' = [pc |-> "open", room_group_name |-> PlanToGroup(plan),
                heartbeat_task |-> "running",
                auto_refresh_task |->
                    IF plan \in {"basic", "enterprise"} THEN "running" ELSE "none"]
    /\ groups' = GroupAdd(groups, PlanToGroup(plan), PeerChannel)
    /\ UNCHANGED <<program, rateVars, calcVars, sigVars, winVars, histVars, symVars, connVars,
                   tickVars, flushVars, cons_pc, user_plan, room_group_name,
                   heartbeat_task, auto_refresh_task, live_update_tasks, requests,
                   task_frames, since_disconnect, late_frames, last_frame, first_frame,
                   frame_tiers, user_subscription_plan, last_request, deltas,
                   account_plan, plan_changes, heartbeats>>

\* CryptoConsumer.disconnect on the second instance.
PeerDisconnect ==
    /\ program = "consumer"
    /\ peer.pc = "open"
    /\ groups' = GroupDiscard(groups, peer.room_group_name, PeerChannel)
    /\ peer' = [pc |-> "closed", room_group_name |-> "none",
                heartbeat_task |-> CancelTask(peer.heartbeat_task),
                auto_refresh_task |-> CancelTask(peer.auto_refresh_task)]
    /\ UNCHANGED <<program, rateVars, calcVars, sigVars, winVars, histVars, symVars, connVars,
                   tickVars, flushVars, cons_pc, user_plan, room_group_name,
                   heartbeat_task, auto_refresh_task, live_update_tasks, requests,
                   task_frames, since_disconnect, late_frames, last_frame, first_frame,
                   frame_tiers, user_subscription_plan, last_request, deltas,
                   account_plan, plan_changes, heartbeats>>

\* One heartbeat interval passes after disconnect.
ConsTimePasses ==
    /\ program = "consumer"
    /\ cons_pc = "closed"
    /\ since_disconnect <= HeartbeatInterval
    /\ since_disconnect' = since_disconnect + HeartbeatInterval
    /\ UNCHANGED <<program, rateVars, groups, peer, calcVars, sigVars, winVars, histVars, symVars, connVars, tickVars, flushVars, heartbeats,
                   cons_pc, user_plan, room_group_name, heartbeat_task, auto_refresh_task,
                   live_update_tasks, requests, task_frames, late_frames, last_frame,
                   first_frame, frame_tiers, user_subscription_plan, last_request, deltas,
                   account_plan, plan_changes>>

\* StripeWebhookView.post on checkout.session.completed: the account's row gets
\* the plan of the price that was paid.
StripeCheckoutCompleted(new_plan) ==
    /\ program = "consumer"
    /\ plan_changes < MaxPlanChanges
    /\ plan_changes' = plan_changes + 1
    /\ account_plan' = new_plan
    /\ UNCHANGED <<program, rateVars, groups, peer, calcVars, sigVars, winVars, histVars, symVars, connVars, tickVars, flushVars, heartbeats,
                   cons_pc, user_plan, room_group_name, heartbeat_task, auto_refresh_task,
                   live_update_tasks, requests, task_frames, since_disconnect, late_frames,
                   last_frame, first_frame, frame_tiers, user_subscription_plan,
                   last_request, deltas>>

\* tasks.check_and_expire_plans: an expired paid plan is set back to free.
CheckAndExpirePlans ==
    /\ program = "consumer"
    /\ account_plan # "free"
    /\ plan_changes < MaxPlanChanges
    /\ plan_changes' = plan_changes + 1
    /\ account_plan' = "free"
    /\ UNCHANGED <<program, rateVars, groups, peer, calcVars, sigVars, winVars, histVars, symVars, connVars, tickVars, flushVars, heartbeats,
                   cons_pc, user_plan, room_group_name, heartbeat_task, auto_refresh_task,
                   live_update_tasks, requests, task_frames, since_disconnect, late_frames,
                   last_frame, first_frame, frame_tiers, user_subscription_plan,
                   last_request, deltas>>

ConsInit ==
    /\ cons_pc = IF program = "consumer" THEN "new" ELSE "none"
    /\ user_plan = "free"
    /\ room_group_name = "none"
    /\ heartbeat_task = "none"
    /\ auto_refresh_task = "none"
    /\ live_update_tasks = 0
    /\ requests = 0
    /\ task_frames = 0
    /\ since_disconnect = 0
    /\ late_frames = 0
    /\ last_frame = "none"
    /\ first_frame = NoFrame
    /\ frame_tiers = {}
    /\ user_subscription_plan = "free"
    /\ last_request = NoRequest
    /\ deltas = 0
    /\ account_plan = "free"
    /\ plan_changes = 0
    /\ heartbeats = 0
    /\ groups = [g \in Groups |-> {}]
    /\ peer = NoPeer

\* ============================================================== calculators
\* RSI values are in hundredths of a point (50.0 is 5000); prices are integers.

RECURSIVE SumSeq(_)
SumSeq(s) == IF s = <<>> THEN 0 ELSE Head(s) + SumSeq(Tail(s))

\* np.diff(prices): the changes between consecutive prices.
Diff(prices) == [i \in 1..(Len(prices) - 1) |-> prices[i + 1] - prices[i]]

FirstN(seq, n) == SubSeq(seq, 1, Min(n, Len(seq)))

\* gains: the change where it is positive, else 0; losses: its size where it is
\* negative, else 0.
Gains(changes) == [i \in 1..Len(changes) |-> IF changes[i] > 0 THEN changes[i] ELSE 0]
Losses(changes) == [i \in 1..Len(changes) |-> IF changes[i] < 0 THEN -changes[i] ELSE 0]

\* 100 - (100 / (1 + rs)) with rs = gain / loss, loss > 0: 100 * gain / (gain + loss),
\* in hundredths, rounded down.  gain and loss may carry any common factor.
RsiOf(gain, loss) == (10000 * gain) \div (gain + loss)

\* Wilder's smoothing, avg = (avg * (period - 1) + x) / period for each further
\* change.  gain and loss are kept as integers: both are `scale` times the averages.
RECURSIVE Wilder(_, _, _, _, _)
Wilder(gain, loss, scale, rest, period) ==
    IF rest = <<>> THEN <<gain, loss>>
    ELSE LET d == Head(rest)
         IN  Wilder(gain * (period - 1) + (IF d > 0 THEN d ELSE 0) * scale,
                    loss * (period - 1) + (IF d < 0 THEN -d ELSE 0) * scale,
                    scale * period, Tail(rest), period)

\* start_websocket.py calculate_rsi.
calculate_rsi(prices, period) ==
    IF Len(prices) <= period THEN RsiNeutral
    ELSE LET changes == Diff(prices)
             seed == FirstN(changes, period)
             gains == SumSeq(Gains(seed))
             losses == SumSeq(Losses(seed))
         IN  IF losses = 0 THEN RsiHigh
             ELSE LET gl == Wilder(gains, losses, period,
                                   SubSeq(changes, period + 1, Len(changes)), period)
                  IN  IF gl[2] = 0 THEN RsiHigh
                      ELSE IF RsiOf(gl[1], gl[2]) < 0 \/ RsiOf(gl[1], gl[2]) > RsiFull
                           THEN RsiNeutral
                           ELSE RsiOf(gl[1], gl[2])

\* Command._calculate_metrics_sync: metrics['rsi_1m'].
CommandRsi1m(all_close_prices) ==
    IF Len(all_close_prices) > RsiPeriod
    THEN calculate_rsi(LastN(all_close_prices, CommandRsiWindow), RsiPeriod)
    ELSE RsiNeutral

\* BinanceWebSocketClient._calculate_rsi (the helper calculate_rsi inside
\* CryptoConsumer._sync_fetch_live_data is the same function).
WsCalculateRsi(closes, period) ==
    IF Len(closes) < period + 1 THEN RsiNone
    ELSE LET changes == Diff(closes)
             avg_gain == SumSeq(LastN(Gains(changes), period))
             avg_loss == SumSeq(LastN(Losses(changes), period))
         IN  IF Len(changes) < period THEN RsiNone
             ELSE IF avg_loss = 0 THEN RsiFull
             ELSE RsiOf(avg_gain, avg_loss)

\* BinanceWebSocketClient._calculate_metrics: metrics['rsi_1m'], RsiNone when the
\* key is not set.
WsRsi1m(closes) ==
    IF Len(closes) >= WsRsiWindow
    THEN WsCalculateRsi(LastN(closes, WsRsiWindow), RsiPeriod)
    ELSE RsiNone

\* crypto_trading_dashboard.py RSICalculator.calculate_rsi.
RSICalculatorCalculateRsi(prices, period) ==
    IF Len(prices) < period + 1 THEN RsiNeutral
    ELSE LET changes == Diff(prices)
             avg_gain == SumSeq(FirstN(Gains(changes), period))
             avg_loss == SumSeq(FirstN(Losses(changes), period))
             gl == Wilder(avg_gain, avg_loss, period,
                          SubSeq(changes, period + 1, Len(changes)), period)
         IN  IF gl[2] = 0 THEN RsiFull ELSE RsiOf(gl[1], gl[2])

\* tasks.py DistributedCryptoCalculator.calculate_rsi.
DistributedCalculateRsi(prices, period) ==
    IF Len(prices) < period + 1 THEN RsiNeutral
    ELSE LET changes == Diff(prices)
             avg_gain == SumSeq(LastN(Gains(changes), period))
             avg_loss == SumSeq(LastN(Losses(changes), period))
         IN  IF avg_loss = 0 THEN RsiFull ELSE RsiOf(avg_gain, avg_loss)

\* tasks.py calculate_crypto_metrics_task: base_rsi = min(100, max(0, 50 + change_pct / 2)),
\* rsi_1m = round(base_rsi + np.random.uniform(-5, 5), 2).  change_pct in whole
\* percent, noise in hundredths.
EstimatedRsi1m(change_pct, noise) ==
    LET base_rsi == Min(RsiFull, IF RsiNeutral + 50 * change_pct < 0 THEN 0
                                 ELSE RsiNeutral + 50 * change_pct)
    IN  base_rsi + noise

\* The close prices the calculators are applied to: n closes of a shape.
Shapes == {"flat", "rising", "falling", "zigzag", "dip", "bump"}
Closes(n, shape) ==
    [i \in 1..n |->
        CASE shape = "flat" -> 5
          [] shape = "rising" -> 5 + i
          [] shape = "falling" -> 5 + n - i
          [] shape = "zigzag" -> 5 + (i % 2)
          [] shape = "dip" -> IF i = n - 1 THEN 4 ELSE 5
          [] OTHER -> IF i = 2 THEN 6 ELSE 5]

NoRsi == [impl |-> "none", value |-> RsiNone]

\* A new window of close prices is in place; nothing is computed from it yet.
NewCloses(n, shape) ==
    /\ program = "calculators"
    /\ close_prices' = Closes(n, shape)
    /\ rsi' = NoRsi
    /\ UNCHANGED <<program, rateVars, sigVars, consVars, flushVars, winVars, histVars, symVars,
                   connVars, tickVars, metVars, taskVars>>

\* Command._calculate_metrics_sync computes rsi_1m from the close_prices.
CommandComputesRsi ==
    /\ program = "calculators"
    /\ rsi' = [impl |-> "Command", value |-> CommandRsi1m(close_prices)]
    /\ UNCHANGED <<program, rateVars, sigVars, consVars, flushVars, winVars, histVars, symVars,
                   connVars, tickVars, close_prices, metVars, taskVars>>

\* BinanceWebSocketClient._calculate_metrics computes rsi_1m from the close_prices.
WsComputesRsi ==
    /\ program = "calculators"
    /\ rsi' = [impl |-> "BinanceWebSocketClient", value |-> WsRsi1m(close_prices)]
    /\ UNCHANGED <<program, rateVars, sigVars, consVars, flushVars, winVars, histVars, symVars,
                   connVars, tickVars, close_prices, metVars, taskVars>>

\* KlineDataProcessor.calculate_rsi computes the RSI of a timeframe's close_prices.
DashboardComputesRsi ==
    /\ program = "calculators"
    /\ rsi' = [impl |-> "RSICalculator",
               value |-> RSICalculatorCalculateRsi(close_prices, RsiPeriod)]
    /\ UNCHANGED <<program, rateVars, sigVars, consVars, flushVars, winVars, histVars, symVars,
                   connVars, tickVars, close_prices, metVars, taskVars>>

\* tasks.py: calculator.calculate_rsi(price_history, 14).
DistributedComputesRsi ==
    /\ program = "calculators"
    /\ rsi' = [impl |-> "DistributedCryptoCalculator",
               value |-> DistributedCalculateRsi(close_prices, RsiPeriod)]
    /\ UNCHANGED <<program, rateVars, sigVars, consVars, flushVars, winVars, histVars, symVars,
                   connVars, tickVars, close_prices, metVars, taskVars>>

\* calculate_crypto_metrics_task estimates rsi_1m from the 24 h price change; a
\* change of 0 is falsy and leaves the field alone.
TaskEstimatesRsi(change_pct, noise) ==
    /\ program = "calculators"
    /\ change_pct # 0
    /\ rsi' = [impl |-> "calculate_crypto_metrics_task",
               value |-> EstimatedRsi1m(change_pct, noise)]
    /\ UNCHANGED <<program, rateVars, sigVars, consVars, flushVars, winVars, histVars, symVars,
                   connVars, tickVars, close_prices, metVars, taskVars>>

CalcInit ==
    /\ close_prices = <<>>
    /\ rsi = NoRsi

\* ------------------------------------------------------- timeframe metrics
\* The timeframes every implementation computes, with the index offset of the
\* reference candle (binance_ws_client.py, consumers.py) and the length of the
\* period in minutes (start_websocket.py).
Timeframes == {"m1", "m2", "m3", "m5", "m10", "m15", "m60"}

IdxOffset(tf) ==
    CASE tf = "m1" -> 2 [] tf = "m2" -> 3 [] tf = "m3" -> 4 [] tf = "m5" -> 6
      [] tf = "m10" -> 11 [] tf = "m15" -> 16 [] tf = "m60" -> 61

Minutes(tf) ==
    CASE tf = "m1" -> 1 [] tf = "m2" -> 2 [] tf = "m3" -> 3 [] tf = "m5" -> 5
      [] tf = "m10" -> 10 [] tf = "m15" -> 15 [] tf = "m60" -> 60

\* start_websocket.py stores <key>_vol for these intervals only.
VolIntervals == {"m1", "m5", "m10", "m15", "m60"}

\* The fields of a timeframe the model follows: the return in percent (key "m1"),
\* and m1_vol, m1_bv, m1_sv, m1_nv.
FieldNames == {"pct", "vol", "bv", "sv", "nv"}

\* A dict without keys.
EmptyDict == [k \in {} |-> 0]

\* The candles the stream delivers.  Prices are whole units; the base volume v, the
\* quote volume q and the taker-buy quote volume are in thousandths.
KlineRows ==
    { [o |-> 10, h |-> 12, c |-> 11, v |-> 1000, q |-> 10015, taker_buy_q |-> 4005],
      [o |-> 11, h |-> 11, c |-> 10, v |-> 2000, q |-> 21000, taker_buy_q |-> 0],
      [o |-> 10, h |-> 10, c |-> 10, v |-> 0, q |-> 0, taker_buy_q |-> 0] }

\* The ticker's last price.
LastPrices == {10, 11}

\* HTTP status of the consumer's klines request.
HttpStatuses == {200, 429, 500}

\* Minutes between the open time of the newest candle and now.
Stalenesses == {0, 1, 3}

\* round(x, 2) of a value in thousandths, result in thousandths (ties to even).
Round2(x) ==
    LET q == x \div 10
        r == x % 10
    IN  IF r < 5 THEN 10 * q
        ELSE IF r > 5 THEN 10 * (q + 1)
        ELSE IF q % 2 = 0 THEN 10 * q ELSE 10 * (q + 1)

\* a / b to the nearest integer, b > 0.
RoundDiv(a, b) == (2 * a + b) \div (2 * b)

\* ((current - reference) / reference) * 100 in units of 0.0001 percent.
PctChange(current, reference) == RoundDiv((current - reference) * 1000000, reference)

\* sum(float(k[field]) for k in klines)
SumQ(klines) == SumSeq([i \in 1..Len(klines) |-> klines[i].q])
SumTakerBuyQ(klines) == SumSeq([i \in 1..Len(klines) |-> klines[i].taker_buy_q])
SumV(klines) == SumSeq([i \in 1..Len(klines) |-> klines[i].v])

\* BinanceWebSocketClient._calculate_metrics, the timeframe part: a timeframe gets
\* its keys only if the window reaches back to its reference candle.
WsCalculateMetrics(last_price, klines) ==
    LET n == Len(klines)
        present == IF n >= 2
                   THEN {tf \in Timeframes :
                            n >= IdxOffset(tf) /\ klines[n - IdxOffset(tf) + 1].c > 0}
                   ELSE {}
        field(tf, name) ==
            LET period == LastN(klines, Min(IdxOffset(tf) - 1, n))
                tf_volume == SumQ(period)
                buy_vol == SumTakerBuyQ(period)
            IN  CASE name = "pct" -> PctChange(last_price, klines[n - IdxOffset(tf) + 1].c)
                  [] name = "vol" -> Round2(tf_volume)
                  [] name = "bv" -> Round2(buy_vol)
                  [] name = "sv" -> Round2(tf_volume - buy_vol)
                  [] name = "nv" -> Round2(buy_vol - (tf_volume - buy_vol))
    IN  [k \in present \X FieldNames |-> field(k[1], k[2])]

\* Command._calculate_metrics_sync: the candles of a period are those whose open
\* time is at most `minutes` old; m1 falls back to two minutes.
PeriodCount(klines, tf, staleness) ==
    LET within(minutes) == IF minutes < staleness THEN 0
                           ELSE Min(Len(klines), minutes - staleness + 1)
    IN  IF tf = "m1" /\ within(1) < 1 THEN within(2) ELSE within(Minutes(tf))

CommandCalculateMetricsSync(klines, staleness) ==
    IF Len(klines) < 2 THEN EmptyDict
    ELSE
        LET period_klines(tf) == LastN(klines, PeriodCount(klines, tf, staleness))
            keys == {k \in Timeframes \X FieldNames :
                        /\ PeriodCount(klines, k[1], staleness) >= 1
                        /\ k[2] = "pct" => period_klines(k[1])[1].o > 0
                        /\ k[2] = "vol" => k[1] \in VolIntervals}
            field(tf, name) ==
                LET p == period_klines(tf)
                IN  CASE name = "pct" -> PctChange(p[Len(p)].c, p[1].o)
                      [] name = "vol" -> SumV(p)
                      [] name = "bv" -> SumQ(p)
                      [] name = "sv" ->
                            SumSeq([i \in 1..Len(p) |-> p[i].v * (p[i].h - p[i].c)])
                      [] name = "nv" ->
                            SumSeq([i \in 1..Len(p) |-> (p[i].c - p[i].o) * p[i].v])
        IN  [k \in keys |-> field(k[1], k[2])]

\* Command.bulk_upsert_database: the row of one symbol; without metrics every
\* interval field gets a default.
BulkUpsertDatabase(klines, staleness) ==
    IF Len(klines) >= 2 THEN CommandCalculateMetricsSync(klines, staleness)
    ELSE [k \in {kk \in Timeframes \X FieldNames :
                    kk[2] = "vol" => kk[1] \in VolIntervals} |-> 0]

\* CryptoConsumer._basic_ticker_data_with_zeros
BasicTickerDataWithZeros == [k \in Timeframes \X FieldNames |-> 0]

\* CryptoConsumer._sync_fetch_live_data, fetch_klines_for_symbol.
FetchKlinesForSymbol(status, current_price, klines) ==
    IF status # 200 \/ Len(klines) < 2 THEN BasicTickerDataWithZeros
    ELSE
        LET n == Len(klines)
            present == {tf \in Timeframes : n >= IdxOffset(tf)}
            field(tf, name) ==
                LET period == LastN(klines, IdxOffset(tf) - 1)
                    tf_price == klines[n - IdxOffset(tf) + 1].c
                    tf_volume == SumQ(period)
                    buy_vol == SumTakerBuyQ(period)
                    sell_vol == tf_volume - buy_vol
                IN  CASE name = "pct" ->
                            IF tf_price > 0 THEN PctChange(current_price, tf_price) ELSE 0
                      [] name = "vol" -> Round2(tf_volume)
                      [] name = "bv" -> Round2(buy_vol)
                      [] name = "sv" -> Round2(sell_vol)
                      [] name = "nv" -> Round2(buy_vol - sell_vol)
        IN  [k \in present \X FieldNames |-> field(k[1], k[2])]

NoMetrics == [impl |-> "none", staleness |-> 0, fields |-> EmptyDict]

\* A closed candle is appended to the symbol's window.
AppendKline(row) ==
    /\ program = "timeframe_metrics"
    /\ Len(tf_klines) < MaxWindow
    /\ tf_klines' = Append(tf_klines, row)
    /\ metrics' = NoMetrics
    /\ UNCHANGED <<program, rateVars, sigVars, consVars, flushVars, winVars, histVars, symVars,
                   connVars, tickVars, close_prices, rsi, taskVars>>

WsCalculatesMetrics(last_price) ==
    /\ program = "timeframe_metrics"
    /\ metrics' = [impl |-> "BinanceWebSocketClient", staleness |-> 0,
                   fields |-> WsCalculateMetrics(last_price, tf_klines)]
    /\ UNCHANGED <<program, rateVars, sigVars, consVars, flushVars, winVars, histVars, symVars,
                   connVars, tickVars, close_prices, rsi, tf_klines, taskVars>>

CommandBulkUpserts(staleness) ==
    /\ program = "timeframe_metrics"
    /\ metrics' = [impl |-> "Command", staleness |-> staleness,
                   fields |-> BulkUpsertDatabase(tf_klines, staleness)]
    /\ UNCHANGED <<program, rateVars, sigVars, consVars, flushVars, winVars, histVars, symVars,
                   connVars, tickVars, close_prices, rsi, tf_klines, taskVars>>

ConsumerFetchesKlines(status, current_price) ==
    /\ program = "timeframe_metrics"
    /\ metrics' = [impl |-> "CryptoConsumer", staleness |-> 0,
                   fields |-> FetchKlinesForSymbol(status, current_price, tf_klines)]
    /\ UNCHANGED <<program, rateVars, sigVars, consVars, flushVars, winVars, histVars, symVars,
                   connVars, tickVars, close_prices, rsi, tf_klines, taskVars>>

MetricsInit ==
    /\ tf_klines = <<>>
    /\ metrics = NoMetrics

\* ------------------------------------------------- metrics computations in threads
\* One symbol's window and the computations that read it while the event loop
\* goes on applying candles.  A candle is the number of its arrival.

\* A computation: pc "created" (task created, its thread has not read the store),
\* "reading", "computed", "done"; held is what its reference to the window shows
\* now, shared whether that reference is the list object the store still holds,
\* reads the window contents it saw at each of its reads.
NewReader(pc, held, shared) == [pc |-> pc, held |-> held, shared |-> shared, reads |-> <<>>]

NoStoredMetrics == [task |-> 0, klines |-> <<>>]

\* list.append(k) on the object the store holds: every holder of that object sees
\* it; the trim binds the store to a new list and leaves the old object as it is.
AppendInPlace(rs, appended) ==
    [r \in 1..Len(rs) |->
        IF rs[r].shared
        THEN [rs[r] EXCEPT !.held = appended,
                           !.shared = Len(appended) <= KlineBufferCap]
        ELSE rs[r]]

\* BinanceWebSocketClient._handle_kline_update while computations may be running.
WsKlineAppended ==
    /\ program = "start_binance_ws"
    /\ Len(live_klines) < MaxArrivals
    /\ live_klines' = AppendTrim65(live_klines, Len(live_klines) + 1)
    /\ readers' = AppendInPlace(readers, Append(live_klines, Len(live_klines) + 1))
    /\ UNCHANGED <<program, rateVars, sigVars, consVars, flushVars, winVars, histVars, symVars,
                   connVars, tickVars, close_prices, rsi, metVars, calculated_metrics>>

\* BinanceWebSocketClient._update_database: kline_snapshot = dict(kline_data_buffer)
\* copies the dict, not the lists in it; batch_update then runs in a thread.  A
\* symbol without a list gets a fresh [] from kline_snapshot.get(symbol, []).
WsBatchUpdateStarts ==
    /\ program = "start_binance_ws"
    /\ Len(readers) < MaxReaders
    /\ readers' = Append(readers, NewReader("reading", live_klines, live_klines # <<>>))
    /\ UNCHANGED <<program, rateVars, sigVars, consVars, flushVars, winVars, histVars, symVars,
                   connVars, tickVars, close_prices, rsi, metVars, live_klines,
                   calculated_metrics>>

\* Command.receive_websocket_data, a closed candle of a symbol with a window:
\* update_kline_history (np.append builds a new array), then
\* create_task(recalculate_metrics_for_symbol(symbol)).
CmdKlineClosed ==
    /\ program = "start_websocket"
    /\ Len(live_klines) < MaxArrivals
    /\ Len(readers) < MaxReaders
    /\ live_klines' = LastN(Append(live_klines, Len(live_klines) + 1), KlineHistoryCap)
    /\ readers' = Append(readers, NewReader("created", <<>>, FALSE))
    /\ UNCHANGED <<program, rateVars, sigVars, consVars, flushVars, winVars, histVars, symVars,
                   connVars, tickVars, close_prices, rsi, metVars, calculated_metrics>>

\* Command._calculate_metrics_sync in its thread: klines = self.kline_history.get(symbol)
CmdThreadStarts(r) ==
    /\ program = "start_websocket"
    /\ r \in 1..Len(readers)
    /\ readers[r].pc = "created"
    /\ readers' = [readers EXCEPT ![r] = NewReader("reading", live_klines, FALSE)]
    /\ UNCHANGED <<program, rateVars, sigVars, consVars, flushVars, winVars, histVars, symVars,
                   connVars, tickVars, close_prices, rsi, metVars, live_klines,
                   calculated_metrics>>

\* The computation reads its window: first the closes (or the length test), later
\* the candles of the timeframes.
ReaderReads(r) ==
    /\ r \in 1..Len(readers)
    /\ readers[r].pc = "reading"
    /\ readers' = [readers EXCEPT ![r].reads = Append(@, readers[r].held),
                                  ![r].pc = IF Len(readers[r].reads) = 1
                                            THEN "computed" ELSE "reading"]
    /\ UNCHANGED <<program, rateVars, sigVars, consVars, flushVars, winVars, histVars, symVars,
                   connVars, tickVars, close_prices, rsi, metVars, live_klines,
                   calculated_metrics>>

\* Command.recalculate_metrics_for_symbol after the thread returned: metrics of a
\* window of fewer than 2 candles are empty and are not stored.
CmdTaskStores(r) ==
    /\ program = "start_websocket"
    /\ r \in 1..Len(readers)
    /\ readers[r].pc = "computed"
    /\ readers' = [readers EXCEPT ![r].pc = "done"]
    /\ calculated_metrics' = IF Len(readers[r].held) >= 2
                             THEN [task |-> r, klines |-> readers[r].held]
                             ELSE calculated_metrics
    /\ UNCHANGED <<program, rateVars, sigVars, consVars, flushVars, winVars, histVars, symVars,
                   connVars, tickVars, close_prices, rsi, metVars, live_klines>>

TaskInit ==
    /\ live_klines = <<>>
    /\ readers = <<>>
    /\ calculated_metrics = NoStoredMetrics

\* ==================================================================== init

ConnInit ==
    /\ ing_pc = CASE program = "start_binance_ws" -> "connecting"
                  [] program = "start_websocket" -> "starting"
                  [] OTHER -> "none"
    /\ is_connected = FALSE
    /\ reconnect_delay = BaseReconnectDelay
    /\ db_update_loops = 0
    /\ disconnect_called = FALSE
    /\ sleep_for = 0
    /\ prev_wait = 0
    /\ wait_after_fail = FALSE
    /\ sustained = FALSE
    /\ lost_sustained = FALSE
    /\ connects = 1
    /\ last_event = "none"
    /\ disconnect_task = "none"
    /\ ws_state = "none"

TickInit ==
    /\ ticker_data_buffer = <<>>
    /\ latest_ticker_data = <<>>
    /\ last_ticker = [s \in 0..MaxTickerSymbols |-> 0]
    /\ frames_sent = 0
    /\ stats = [ticker_messages |-> 0, kline_messages |-> 0, db_updates |-> 0, errors |-> 0]

\* ============================================================= rate limiter
\* Times are in clock ticks; a window of w seconds is w * TicksPerSecond ticks.
\* Every read of time.time() returns a later value than the one before it.

NoEntry == [count |-> 0, start_time |-> 0, expires |-> 0]
NoLimit == [max_requests |-> 0, window |-> 0]
IdleCaller == [pc |-> "idle", count |-> 0, start_time |-> 0]

\* int(x) of a positive number of seconds given in ticks.
IntSeconds(ticks) == ticks \div TicksPerSecond

\* cache.get(cache_key, default): the entry while it has not expired.
CacheGet(entry, default, now) ==
    IF entry.expires > now THEN [count |-> entry.count, start_time |-> entry.start_time]
    ELSE default

\* cache.set(cache_key, current, timeout) of django_redis: a timeout of 0
\* seconds deletes the key.
CacheSet(count, start_time, timeout, now) ==
    IF timeout <= 0 THEN NoEntry
    ELSE [count |-> count, start_time |-> start_time,
          expires |-> now + timeout * TicksPerSecond]

\* rate_limit(max_requests, window) decorates a view, or check_binance_limit
\* passes its two limits: the limit the calls below are checked against.
RateLimitDecorated(max_requests, window) ==
    /\ program = "rate_limiter"
    /\ rate_limit = NoLimit
    /\ rate_limit' = [max_requests |-> max_requests, window |-> window]
    /\ UNCHANGED <<program, calcVars, sigVars, winVars, histVars, symVars, connVars,
                   tickVars, flushVars, consVars, clock, cache, callers, calls_made,
                   allowed_calls>>

\* check_rate_limit up to the return of cache.get: the default is built with
\* time.time() before the cache is asked.
CheckRateLimitGets(c) ==
    /\ program = "rate_limiter"
    /\ rate_limit # NoLimit
    /\ calls_made < MaxCalls
    /\ callers[c].pc = "idle"
    /\ calls_made' = calls_made + 1
    /\ LET current == CacheGet(cache, [count |-> 0, start_time |-> clock], clock)
       IN  callers' = [callers EXCEPT ![c] =
               [pc |-> "got", count |-> current.count, start_time |-> current.start_time]]
    /\ clock' = clock + 1
    /\ UNCHANGED <<program, calcVars, sigVars, winVars, histVars, symVars, connVars,
                   tickVars, flushVars, consVars, cache, allowed_calls, rate_limit>>

\* check_rate_limit from `elapsed = time.time() - current['start_time']` to its
\* return: a new window when the old one is over, a refusal when the count has
\* reached max_requests, otherwise the count is incremented and written back
\* with the rest of the window, in whole seconds, as timeout.
CheckRateLimitDecides(c) ==
    /\ program = "rate_limiter"
    /\ callers[c].pc = "got"
    /\ LET current == callers[c]
           elapsed == clock - current.start_time
           window == rate_limit.window * TicksPerSecond
       IN  IF elapsed >= window
           THEN /\ cache' = CacheSet(1, clock, rate_limit.window, clock)
                /\ allowed_calls' = Append(allowed_calls, [at |-> clock, start_time |-> clock])
           ELSE IF current.count >= rate_limit.max_requests
           THEN UNCHANGED <<cache, allowed_calls>>
           ELSE /\ cache' = CacheSet(current.count + 1, current.start_time,
                                     IntSeconds(window - elapsed), clock)
                /\ allowed_calls' = Append(allowed_calls,
                       [at |-> clock, start_time |-> current.start_time])
    /\ callers' = [callers EXCEPT ![c] = IdleCaller]
    /\ clock' = clock + 1
    /\ UNCHANGED <<program, calcVars, sigVars, winVars, histVars, symVars, connVars,
                   tickVars, flushVars, consVars, calls_made, rate_limit>>

\* Time passes between two steps.
ClockTicks ==
    /\ program = "rate_limiter"
    /\ clock < MaxClock
    /\ clock' = clock + 1
    /\ UNCHANGED <<program, calcVars, sigVars, winVars, histVars, symVars, connVars,
                   tickVars, flushVars, consVars, cache, callers, calls_made,
                   allowed_calls, rate_limit>>

RateInit ==
    /\ clock = 0
    /\ cache = NoEntry
    /\ callers = [c \in 1..MaxCallers |-> IdleCaller]
    /\ calls_made = 0
    /\ allowed_calls = <<>>
    /\ rate_limit = NoLimit

Init ==
    /\ program \in Programs
    /\ WinInit
    /\ ConnInit
    /\ TickInit
    /\ FlushInit
    /\ ConsInit
    /\ CalcInit
    /\ MetricsInit
    /\ TaskInit
    /\ RateInit

\* ------------------------------------------------------------ specifications

ConnectOk == WsConnectOk \/ CmdConnectOk

\* Rolling windows: the connection is established and klines are applied.
WinNext ==
    \/ \E listed_later \in BOOLEAN, n \in PrefetchLens \cup {FetchFailed} :
            CmdStartup(listed_later, n)
    \/ ConnectOk
    \/ \E s \in Symbols, x \in BOOLEAN : HandleKlineUpdate(s, x)
    \/ \E s \in Symbols, x \in BOOLEAN : ReceiveKline(s, x)
    \/ \E s \in Symbols : InitializeNewSymbol(s)
    \/ \E s \in Symbols, x \in BOOLEAN : ProcessKline(s, x)

SpecWin == Init /\ [][WinNext]_vars

\* Connection life cycle with ticker, malformed and unexpected frames.
IngestNext ==
    \/ \E listed_later \in BOOLEAN : CmdStartup(listed_later, FetchFailed)
    \/ WsConnectOk
    \/ WsConnectFail
    \/ WsReconnectWake
    \/ WsConnectionClosedError
    \/ WsConnectionClosedOK
    \/ WsDisconnect
    \/ WsDbLoopExit
    \/ StayConnected
    \/ CmdConnectOk
    \/ CmdConnectFail
    \/ CmdWake
    \/ CmdConnectionClosedError
    \/ CmdConnectionClosedOK
    \/ \E lo \in {1, 2} : WsFrameTicker(lo, 2, FALSE)
    \/ WsFrameMalformed
    \/ WsFrameHandlerError
    \/ \E lo \in {1, 2}, alt \in BOOLEAN : CmdFrameTicker(lo, 2, alt)
    \/ CmdFrameSkipped
    \/ \E kind \in {"malformed", "handler_error"} : CmdFrameRaises(kind)

SpecIngest == Init /\ [][IngestNext]_vars

\* The start_binance_ws process from start to exit: connection cycles, ticker
\* frames, a call of stop_binance_websocket, and a termination signal.
ShutdownNext ==
    \/ WsConnectOk
    \/ WsConnectFail
    \/ WsReconnectWake
    \/ WsConnectionClosedError
    \/ WsConnectionClosedOK
    \/ WsDisconnect
    \/ \E lo \in {1, 2} : WsFrameTicker(lo, 2, FALSE)
    \/ WsHandleSignal
    \/ WsRunUnwinds

SpecShutdown == Init /\ [][ShutdownNext]_vars

\* Flush ticks over an established connection that delivers ticker frames.
FlushNext ==
    \/ CmdStartup(FALSE, FetchFailed)
    \/ ConnectOk
    \/ \E lo \in {1, 2} : WsFrameTicker(lo, 2, FALSE)
    \/ \E lo \in {1, 2}, alt \in BOOLEAN : CmdFrameTicker(lo, 2, alt)
    \/ CmdFlushTick
    \/ \E b \in 1..Len(batches), outcome \in Outcomes : UpsertAttempt(b, outcome)
    \/ CmdGather
    \/ WsFlushTick
    \/ \E outcome \in {"ok", "row_error", "other"} : WsFlushWrite(outcome)
    \/ UpsertCallEnds

SpecFlush == Init /\ [][FlushNext]_vars

\* Flush ticks when the exchange sends the tickers of every listed pair at once.
BatchNext ==
    \/ CmdStartup(FALSE, FetchFailed)
    \/ ConnectOk
    \/ \E hi \in {2, MaxTickerSymbols} : WsFrameTicker(1, hi, FALSE)
    \/ \E hi \in {2, MaxTickerSymbols} : CmdFrameTicker(1, hi, FALSE)
    \/ CmdFlushTick
    \/ \E b \in 1..Len(batches), outcome \in {"ok", "other"} : UpsertAttempt(b, outcome)
    \/ CmdGather
    \/ WsFlushTick
    \/ \E outcome \in {"ok", "other"} : WsFlushWrite(outcome)

SpecBatch == Init /\ [][BatchNext]_vars

\* The Command's flush and fan-out with a publish that can raise.
FanoutNext ==
    \/ CmdStartup(FALSE, FetchFailed)
    \/ CmdConnectOk
    \/ \E lo \in {1, 2} : CmdFrameTicker(lo, 2, FALSE)
    \/ CmdFlushTick
    \/ \E b \in 1..Len(batches), outcome \in {"ok", "other"} : UpsertAttempt(b, outcome)
    \/ CmdGather
    \/ CmdBroadcastRaises
    \/ CmdHandleRestarts

SpecFanout == Init /\ [][FanoutNext]_vars

\* One subscriber connection from connect to after disconnect.
\* page_size of a request: absent, small, above the cap of one quote currency.
PageSizeFields == {0, 2, SnapshotLimit + 1}
\* Rows the snapshot query matches: none, a few, more than any page.
RowCounts == {0, 3, SnapshotLimitAll + 3}

ConsumerNext ==
    \/ \E authenticated \in BOOLEAN : ConsConnect(authenticated)
    \/ \E msg \in {"empty", "bad_json", "wrong_shape", "bad_page_size", "other",
                     "request_snapshot", "request_all"},
          page_size_field \in PageSizeFields, rows \in RowCounts :
            ConsReceive(msg, page_size_field, rows)
    \/ ConsCryptoUpdate
    \/ \E new_plan \in {"basic", "enterprise"} : StripeCheckoutCompleted(new_plan)
    \/ CheckAndExpirePlans
    \/ \E has_data \in BOOLEAN : ConsLiveUpdate(has_data)
    \/ ConsHeartbeat
    \/ ConsAutoRefresh
    \/ ConsDisconnect
    \/ ConsTimePasses

SpecConsumer == Init /\ [][ConsumerNext]_vars

\* Two subscriber connections: each connects, beats and disconnects.
PeersNext ==
    \/ \E authenticated \in BOOLEAN : ConsConnect(authenticated)
    \/ \E plan \in {"free", "basic", "enterprise"} : PeerConnect(plan)
    \/ \E new_plan \in {"basic", "enterprise"} : StripeCheckoutCompleted(new_plan)
    \/ ConsHeartbeat
    \/ ConsAutoRefresh
    \/ ConsDisconnect
    \/ PeerDisconnect

SpecPeers == Init /\ [][PeersNext]_vars

\* Calls of check_rate_limit for one key, from up to MaxCallers threads or processes.
RateNext ==
    \/ \E max_requests \in 1..MaxRateRequests, window \in 1..MaxRateWindow :
          RateLimitDecorated(max_requests, window)
    \/ \E c \in 1..MaxCallers : CheckRateLimitGets(c)
    \/ \E c \in 1..MaxCallers : CheckRateLimitDecides(c)
    \/ ClockTicks

SpecRate == Init /\ [][RateNext]_vars

\* The RSI functions applied to windows of every shape and length.
NoiseValues == {-500, 0, 500}
ChangePcts == {-10, 0, 10, 120}

RsiNext ==
    \/ \E n \in 0..MaxCloses, shape \in Shapes : NewCloses(n, shape)
    \/ CommandComputesRsi
    \/ WsComputesRsi
    \/ DashboardComputesRsi
    \/ DistributedComputesRsi
    \/ \E change_pct \in ChangePcts, noise \in NoiseValues :
            TaskEstimatesRsi(change_pct, noise)

SpecRsi == Init /\ [][RsiNext]_vars

\* ------------------------------------------------------- timeframe metrics
MetricsNext ==
    \/ \E row \in KlineRows : AppendKline(row)
    \/ \E last_price \in LastPrices : WsCalculatesMetrics(last_price)
    \/ \E staleness \in Stalenesses : CommandBulkUpserts(staleness)
    \/ \E status \in HttpStatuses, current_price \in LastPrices :
            ConsumerFetchesKlines(status, current_price)

SpecMetrics == Init /\ [][MetricsNext]_vars

\* Metrics computations running in threads while candles arrive.
TasksNext ==
    \/ WsKlineAppended
    \/ WsBatchUpdateStarts
    \/ CmdKlineClosed
    \/ \E r \in 1..MaxReaders : CmdThreadStarts(r)
    \/ \E r \in 1..MaxReaders : ReaderReads(r)
    \/ \E r \in 1..MaxReaders : CmdTaskStores(r)

SpecTasks == Init /\ [][TasksNext]_vars

\* One connection with its background tasks, requests with default paging.
\* The event loop runs a task whose sleep has ended: the heartbeat task is
\* scheduled fairly.
HeartbeatNext ==
    \/ \E authenticated \in BOOLEAN : ConsConnect(authenticated)
    \/ \E msg \in {"bad_json", "request_snapshot", "request_all"} : ConsReceive(msg, 0, 3)
    \/ ConsCryptoUpdate
    \/ \E has_data \in BOOLEAN : ConsLiveUpdate(has_data)
    \/ ConsHeartbeat
    \/ ConsAutoRefresh
    \/ ConsDisconnect
    \/ \E new_plan \in {"basic", "enterprise"} : StripeCheckoutCompleted(new_plan)

SpecConsumerLive == Init /\ [][HeartbeatNext]_vars /\ WF_vars(ConsHeartbeat)

\* ----------------------------------------------------------------- claims

\* C1: for every symbol, after any sequence of candle updates, the length of
\* its rolling window never exceeds the window's capacity (65 in
\* kline_data_buffer, 250 in kline_history, 100 in the KlineDataProcessor deques).
C1_WindowBounded ==
    \A s \in Symbols :
        /\ Len(kline_data_buffer[s]) <= KlineBufferCap
        /\ (s \in DOMAIN kline_history => Len(kline_history[s]) <= KlineHistoryCap)
        /\ Len(kline_data[s]) <= DequeCap
        /\ Len(price_history[s]) <= DequeCap

\* C1 witness: a window is full and has already evicted its oldest candle.
C1_Witness ==
    \E s \in Symbols :
        /\ Len(kline_data_buffer[s]) = KlineBufferCap
        /\ kline_data_buffer[s][1].t > 1

\* C2: within one flush tick at most one upsert is issued per symbol, however
\* many ticker updates for that symbol arrived since the previous tick.
C2_OneUpsertPerSymbol ==
    \A i, j \in 1..Len(upserts) : upserts[i] = upserts[j] => i = j

\* C2 witness: pair 2 was updated by two frames before the first tick, and the
\* tick has written it.
C2_Witness ==
    /\ tick = 1
    /\ \E i \in 1..Len(ticker_snapshot) : ticker_snapshot[i] = <<2, 2>>
    /\ \E i \in 1..Len(upserts) : upserts[i] = 2

\* C3: once a subscriber connection is disconnected, every background task that
\* was created for it (heartbeat, auto-refresh, live-update senders) is cancelled,
\* and no frame is sent to it later than one heartbeat interval after disconnect.
C3_TasksCancelled ==
    cons_pc = "closed" =>
        /\ heartbeat_task # "running"
        /\ auto_refresh_task # "running"
        /\ live_update_tasks = 0
        /\ late_frames = 0

\* C4: the wait before a reconnect starts at 5 s, doubles after each consecutive
\* failed connection attempt, and never exceeds 60 s.
C4_ExponentialBackoff ==
    ing_pc = "sleeping" =>
        /\ sleep_for <= MaxReconnectDelay
        /\ prev_wait = 0 => sleep_for = BaseReconnectDelay
        /\ (wait_after_fail /\ prev_wait > 0) =>
                sleep_for = Min(2 * prev_wait, MaxReconnectDelay)

\* C5: after a connection has stayed up for a sustained period, the next
\* connection loss waits the base delay of 5 s.
C5_DelayReset ==
    (ing_pc = "sleeping" /\ lost_sustained) => sleep_for = BaseReconnectDelay

\* C6: a malformed frame drops only that frame: after it the connection is still
\* open and the coroutine is still reading frames from it.
C6_MalformedKeepsConnection ==
    last_event = "malformed" => ing_pc = "listening"

\* C7: no loss of the exchange connection other than a requested shutdown ends
\* ingestion: the ingestion coroutine returns only after disconnect() was called.
C7_LossIsNotFinal ==
    ing_pc = "returned" => disconnect_called

\* C8: the number of symbols written in one flush tick never exceeds the
\* persistence cap; the symbols beyond the cap are carried into the next tick.
C8_WritesCapped ==
    /\ Len(upserts) <= BatchSize
    /\ (flush_pc = "writing" => Len(ticker_snapshot) <= BatchSize)

C10_LoopSurvivesFailedBatch ==
    (program \in {"start_websocket", "start_binance_ws"} /\ failed_ticks # {}) =>
        /\ flush_pc \in {"sleeping", "gathering", "writing"}
        /\ (flush_pc = "sleeping" /\ tick \in failed_ticks) =>
              \A b \in 1..Len(batches) : batches[b].status = "failed" =>
                  \A i \in 1..Len(batches[b].items) :
                      /\ \A u \in 1..Len(upserts) : upserts[u] # batches[b].items[i][1]
                      /\ \A u \in 1..Len(published) : published[u] # batches[b].items[i][1]
        /\ (program = "start_binance_ws" /\ flush_pc = "sleeping" /\ tick \in failed_ticks)
              => upserts = <<>>

\* C10 witness: the first tick dropped a batch and the second tick has flushed.
C10_Witness ==
    /\ 1 \in failed_ticks
    /\ tick = 2
    /\ 2 \notin failed_ticks
    /\ flush_pc = "sleeping"
    /\ upserts # <<>>

\* C11: every symbol of a batch dropped at flush tick t is in the copy that
\* tick t+1 writes, so that tick t+1 upserts it with its current value.
C11_DroppedRewrittenNextTick ==
    (dropped.tick > 0 /\ tick = dropped.tick + 1) =>
        /\ snapshot_tick = tick
        /\ \A s \in dropped.symbols :
              \E i \in 1..Len(ticker_snapshot) : ticker_snapshot[i][1] = s

\* C12: appending a closed candle to a window that is already at capacity removes
\* exactly the oldest candle and keeps the remaining ones in arrival order, the
\* new candle last.
C12_FifoEviction ==
    [][\A s \in Symbols :
         (klines_received'[s] = klines_received[s] + 1 /\ bar'[s] = bar[s] + 1) =>
            /\ (program = "start_binance_ws" /\ Len(kline_data_buffer[s]) = KlineBufferCap) =>
                  kline_data_buffer'[s] =
                      Append(Tail(kline_data_buffer[s]), [t |-> bar[s], x |-> TRUE])
            /\ (program = "start_websocket" /\ EndsWithUSDT(s) /\ s \in DOMAIN kline_history
                    /\ Len(kline_history[s]) = KlineHistoryCap) =>
                  kline_history'[s] = Append(Tail(kline_history[s]), [t |-> bar[s]])
            /\ (program = "dashboard" /\ Len(kline_data[s]) = DequeCap) =>
                  kline_data'[s] = Append(Tail(kline_data[s]), [t |-> bar[s], x |-> TRUE])
      ]_vars

\* C12 witness: a closed candle was appended to a full window: the window is at
\* capacity, its newest candle is a closed one that arrived when it was already
\* full, and its oldest candle is the second one the window ever held.
C12_Witness ==
    \/ /\ program = "start_binance_ws"
       /\ Len(kline_data_buffer[1]) = KlineBufferCap
       /\ kline_data_buffer[1][KlineBufferCap] = [t |-> KlineBufferCap + 1, x |-> TRUE]
       /\ kline_data_buffer[1][1].t = 2
    \/ /\ program = "start_websocket"
       /\ 1 \in DOMAIN kline_history
       /\ Len(kline_history[1]) = KlineHistoryCap
       /\ kline_history[1][KlineHistoryCap].t = 1
       /\ kline_history[1][1].t = 2 - KlineHistoryCap

\* C13: a candle update whose open time is that of the window's last element
\* (the still-open candle, or its closing update) replaces that element and
\* leaves the window length unchanged; only a candle with a new open time is
\* appended.
C13_OpenCandleReplaced ==
    [][\A s \in Symbols :
         klines_received'[s] = klines_received[s] + 1 =>
            /\ (program = "start_binance_ws" /\ kline_data_buffer[s] # <<>>
                    /\ kline_data_buffer[s][Len(kline_data_buffer[s])].t = bar[s]) =>
                  /\ Len(kline_data_buffer'[s]) = Len(kline_data_buffer[s])
                  /\ \A i \in 1..(Len(kline_data_buffer[s]) - 1) :
                        kline_data_buffer'[s][i] = kline_data_buffer[s][i]
                  /\ kline_data_buffer'[s][Len(kline_data_buffer[s])].t = bar[s]
            /\ (program = "start_websocket" /\ s \in DOMAIN kline_history
                    /\ kline_history[s] # <<>>
                    /\ kline_history[s][Len(kline_history[s])].t = bar[s]) =>
                  Len(kline_history'[s]) = Len(kline_history[s])
      ]_vars

\* C14: the ticker values a flush tick writes for a symbol are those of the last
\* ticker update received for it before the tick took its copy of the buffer;
\* earlier updates of the same interval are overwritten and never written.
C14_LatestTickerWritten ==
    program \in {"start_binance_ws", "start_websocket"} =>
        /\ \A i \in 1..Len(ticker_snapshot) :
              ticker_snapshot[i][2] = last_at_copy[ticker_snapshot[i][1]]
        /\ \A u \in 1..Len(upserts) :
              \E i \in 1..Len(db) : db[i] = <<upserts[u], last_at_copy[upserts[u]]>>

\* C14 witness: pair 2 was updated by frame 1 and by frame 2 before the first
\* tick took its copy, and the tick wrote the values of frame 2.
C14_Witness ==
    /\ tick = 1
    /\ last_at_copy[2] = 2
    /\ \E u \in 1..Len(upserts) : upserts[u] = 2
    /\ \E i \in 1..Len(db) : db[i] = <<2, 2>>

\* C15: the Command publishes a delta to the subscriber groups only once the
\* upserts of the tick have ended, and the delta holds only symbols whose upsert
\* was committed in that tick.
C15_DeltaAfterUpsert ==
    program = "start_websocket" =>
        /\ \A i \in 1..Len(published) :
              \E u \in 1..Len(upserts) : upserts[u] = published[i]
        /\ broadcast # NoBroadcast =>
              /\ published # <<>>
              /\ \A b \in 1..Len(batches) : batches[b].status # "pending"

\* C15 witness: a tick in which one batch was committed and another one raised;
\* the delta was sent and holds the committed symbols only.
C15_Witness ==
    /\ program = "start_websocket"
    /\ broadcast = GroupSend
    /\ \E b \in 1..Len(batches) : batches[b].status = "failed"
    /\ \E b \in 1..Len(batches) : batches[b].status = "done"
    /\ published # <<>>
    /\ Len(published) < Len(ticker_snapshot)

\* C16: each fan-out cycle publishes three distinct projections, one per
\* subscriber group: crypto_enterprise receives the full field set,
\* crypto_premium (the group of plan basic) the intermediate set and crypto_free
\* the minimal set.
C16_ThreeProjections ==
    broadcast # NoBroadcast =>
        /\ broadcast["crypto_enterprise"] = FullFields
        /\ broadcast["crypto_premium"] = BasicFields
        /\ broadcast["crypto_free"] = FreeFields

C18_AckFirst ==
    /\ cons_pc = "new" => first_frame = NoFrame
    /\ cons_pc \in {"open", "closed"} =>
          /\ first_frame.type = "ws_ack"
          /\ first_frame.group = PlanToGroup(user_plan)
          /\ first_frame.plan = user_plan

\* C18 (as stated): the first frame sent on an accepted connection is of type
\* "ack" and carries the connection's tier.
C18_AckTypeAck ==
    cons_pc \in {"open", "closed"} =>
        /\ first_frame.type = "ack"
        /\ first_frame.plan = user_plan

\* C18 witness: an enterprise connection on which the background tasks and the
\* group have sent frames after the acknowledgement.
C18_Witness ==
    /\ cons_pc = "open"
    /\ user_plan = "enterprise"
    /\ first_frame = [type |-> "ws_ack", group |-> "crypto_enterprise", plan |-> "enterprise"]
    /\ task_frames > 0
    /\ deltas > 0
    /\ last_frame # "ws_ack"

\* C19: every well-formed request_snapshot message, from a connection of any
\* tier, is answered with a frame of type snapshot.
C19_SnapshotAnswered ==
    last_request.msg \in {"request_snapshot", "request_all"} =>
        last_request.answer = "snapshot"

\* C20: a snapshot response consists of pages numbered 1..total_chunks, each of
\* at most page_size items, which together hold every row of the requested
\* quote currency.  receive() sends one frame per request, so the pages of a
\* response are that one frame.
C20_PagesCoverState ==
    last_request.answer = "snapshot" =>
        /\ last_request.chunk \in 1..last_request.total_chunks
        /\ last_request.items <= last_request.page_size
        /\ last_request.total_chunks = 1 => last_request.items = last_request.rows

C22_MalformedGetsErrorFrame ==
    last_request.msg \in {"bad_json", "wrong_shape", "bad_page_size"} =>
        /\ last_request.answer = "error"
        /\ last_request.open_after

\* C23: when the ingestion process has exited after SIGINT or SIGTERM, the close
\* of the exchange socket has completed: no socket is left open at exit.
C23_SocketClosedBeforeExit ==
    ing_pc = "exited" => ws_state # "open"

\* C24: every RSI value the pipeline produces lies in [0, 100], for any input.
C24_RsiInRange ==
    rsi.value # RsiNone => (0 <= rsi.value /\ rsi.value <= RsiFull)

\* C25: for a sequence of identical closes longer than the period the RSI
\* returned is exactly 50.0.
C25_FlatIsNeutral ==
    (/\ Len(close_prices) > RsiPeriod
     /\ \A i \in 1..Len(close_prices) : close_prices[i] = close_prices[1]
     /\ rsi.impl \in {"Command", "RSICalculator", "DistributedCryptoCalculator"})
        => rsi.value = RsiNeutral

\* C26: whenever the average loss over the RSI sample is zero (no close of the
\* window is below the one before it), the RSI returned is 100.
C26_NoLossIsFull ==
    (/\ Len(close_prices) > RsiPeriod
     /\ \A i \in 1..(Len(close_prices) - 1) : close_prices[i + 1] >= close_prices[i]
     /\ rsi.impl \in {"Command", "BinanceWebSocketClient", "RSICalculator"})
        => rsi.value = RsiFull

\* C27: when fewer than period + 1 closes are available, the RSI reported is the
\* neutral value 50.
C27_ShortHistoryIsNeutral ==
    (/\ Len(close_prices) < RsiPeriod + 1
     /\ rsi.impl \in {"Command", "BinanceWebSocketClient"})
        => rsi.value = RsiNeutral

\* C28: for every timeframe for which the total volume and the buy and sell
\* volumes are computed, buy volume + sell volume equals the total volume, up to
\* the rounding of the three values to two decimals.
C28_BuyPlusSellIsTotal ==
    \A tf \in Timeframes :
        ({<<tf, "vol">>, <<tf, "bv">>, <<tf, "sv">>} \subseteq DOMAIN metrics.fields)
            => LET d == metrics.fields[<<tf, "bv">>] + metrics.fields[<<tf, "sv">>]
                            - metrics.fields[<<tf, "vol">>]
               IN  -RoundingUnit <= d /\ d <= RoundingUnit

\* C29: when the window holds no candle at a timeframe's horizon, the snapshot
\* computed for the symbol has no return field for that timeframe.
C29_NoCandleNoReturn ==
    \A tf \in Timeframes :
        LET no_candle == IF metrics.impl = "Command"
                         THEN PeriodCount(tf_klines, tf, metrics.staleness) = 0
                         ELSE Len(tf_klines) < IdxOffset(tf)
        IN  (metrics.impl # "none" /\ no_candle) => <<tf, "pct">> \notin DOMAIN metrics.fields

\* C30: at any time at most one _db_update_loop task of the ingestion client is
\* running, also after connection losses and reconnects.
C30_OneFlushTask ==
    program = "start_binance_ws" => db_update_loops <= 1

\* C31: the latest ticker update of every symbol is in the buffer or in the copy
\* a flush took (the clear discards nothing that was not copied), and no update
\* is in the copies of two flushes.
C31_CopiedByOneFlush ==
    program = "start_binance_ws" =>
        /\ \A s \in 0..MaxTickerSymbols :
              last_ticker[s] > 0 =>
                  \/ \E i \in 1..Len(ticker_data_buffer) :
                        ticker_data_buffer[i] = <<s, last_ticker[s]>>
                  \/ \E c \in 1..Len(copies) : \E i \in 1..Len(copies[c]) :
                        copies[c][i] = <<s, last_ticker[s]>>
        /\ \A c1, c2 \in 1..Len(copies) :
              c1 # c2 => \A i \in 1..Len(copies[c1]), j \in 1..Len(copies[c2]) :
                            copies[c1][i] # copies[c2][j]

\* Two flushes have copied the buffer and an update has arrived while the second
\* one is writing.
C31_Witness ==
    /\ program = "start_binance_ws"
    /\ Len(copies) = 2
    /\ flush_pc = "writing"
    /\ ticker_data_buffer # <<>>

\* C32: a metrics computation sees the same window contents at each of its reads,
\* also when candles of the symbol are applied while it runs.
C32_WindowStableWhileRead ==
    \A r \in 1..Len(readers) :
        Len(readers[r].reads) = 2 => readers[r].reads[1] = readers[r].reads[2]

\* C33: the stored metrics of the symbol come from the newest window any finished
\* computation has used: a computation started earlier does not overwrite the
\* result of one started later.
C33_NewestResultStored ==
    \A r \in 1..Len(readers) :
        (readers[r].pc = "done" /\ Len(readers[r].held) >= 2)
            => Len(readers[r].held) <= Len(calculated_metrics.klines)

\* C34: every known USDT symbol has a window in the store when a closed candle of
\* it is applied, so that, once no initialisation of the symbol is pending, the
\* window ends with the last closed candle the exchange sent for it.
C34_NoClosedCandleDiscarded ==
    program = "start_websocket" =>
        \A s \in Symbols \cap known_symbols :
            (EndsWithUSDT(s) /\ bar[s] > 1 /\ s \notin init_tasks)
                => /\ s \in DOMAIN kline_history
                   /\ kline_history[s] # <<>>
                   /\ kline_history[s][Len(kline_history[s])].t = bar[s] - 1

\* C35: when the row of one symbol raises in a flush, the other symbols of that
\* flush are persisted: of a batch (or of the client's copy) whose write ended,
\* at most the symbol that raised is missing from the rows committed.
C35_OtherSymbolsPersisted ==
    LET Committed == {upserts[i] : i \in 1..Len(upserts)}
    IN  /\ (program = "start_binance_ws" /\ flush_pc = "sleeping"
                /\ snapshot_tick = tick /\ tick \notin failed_ticks)
            => Cardinality(DictKeys(ticker_snapshot) \ Committed) <= 1
        /\ program = "start_websocket"
            => \A b \in 1..Len(batches) :
                  (batches[b].status = "failed" /\ batches[b].last_error = "row_error")
                      => Cardinality(DictKeys(batches[b].items) \ Committed) <= 1

\* C36: an exception raised in the fan-out step of a flush leaves the ingestion
\* task alive: it is connecting, listening or waiting to reconnect.
C36_IngestionSurvivesFanoutError ==
    (program = "start_websocket" /\ flush_pc = "crashed")
        => ing_pc \in {"connecting", "listening", "sleeping"}

\* C37: once disconnect() has been called on the client, _reconnect starts no
\* further connection attempt.
C37_NoConnectAfterDisconnect ==
    (program = "start_binance_ws" /\ disconnect_called) => last_event # "wake"

\* C38: a disconnect of one connection leaves the other connection's tasks, its
\* group attribute and its group membership as they were, and removes from the
\* groups no channel but its own.
C38_OnlyOwnTasksAndMembership ==
    [][/\ (cons_pc = "open" /\ cons_pc' = "closed") =>
            /\ peer' = peer
            /\ \A g \in Groups : groups'[g] \ {OwnChannel} = groups[g] \ {OwnChannel}
       /\ (peer.pc = "open" /\ peer'.pc = "closed") =>
            /\ <<room_group_name, heartbeat_task, auto_refresh_task>>' =
                   <<room_group_name, heartbeat_task, auto_refresh_task>>
            /\ \A g \in Groups : groups'[g] \ {PeerChannel} = groups[g] \ {PeerChannel}
      ]_vars

\* One connection has disconnected from a group in which the other, still open
\* with its tasks running, remains the only member.
C38_Witness ==
    /\ cons_pc = "closed"
    /\ peer.pc = "open"
    /\ peer.heartbeat_task = "running"
    /\ peer.auto_refresh_task = "running"
    /\ heartbeat_task = "cancelled"
    /\ auto_refresh_task = "cancelled"
    /\ user_plan = "basic"
    /\ groups["crypto_premium"] = {PeerChannel}

\* C39: a batch whose last exception was neither a deadlock nor a serialization
\* failure has been given up with that exception: it is not waiting for another
\* attempt and no later attempt has committed it.
DeadlockOrSerialization ==
    {"deadlock", "serialization", "operational_deadlock", "integrity_deadlock"}

C39_OnlyDeadlocksRetried ==
    \A b \in 1..Len(batches) :
        batches[b].status # "failed" =>
            batches[b].last_error \in {"none"} \cup DeadlockOrSerialization

\* A batch was retried once after a deadlock and then raised another exception
\* on the attempt on which a retry was still allowed.
C39_Witness ==
    \E b \in 1..Len(batches) :
        /\ batches[b].status = "failed"
        /\ batches[b].last_error = "other"
        /\ batches[b].attempts = 2
        /\ Len(batches[b].waits) = 1
        /\ MayRetry(batches[b].attempt)

\* C40: in the window of any allowed call (from its start_time, for the length
\* of the window) at most max_requests calls of check_rate_limit returned allowed.
AllowedInWindow(start_time) ==
    {j \in 1..Len(allowed_calls) :
        /\ allowed_calls[j].at >= start_time
        /\ allowed_calls[j].at < start_time + rate_limit.window * TicksPerSecond}

C40_AtMostMaxPerWindow ==
    \A i \in 1..Len(allowed_calls) :
        Cardinality(AllowedInWindow(allowed_calls[i].start_time)) <= rate_limit.max_requests

====
